---- MODULE Spec2Model ----
(***************************************************************************)
(* Reconciliation and scoring core of pitwall: the silver-layer upsert     *)
(* scripts (src/pitwall_silver) as state machines over the canonical       *)
(* tables they read and write.                                             *)
(*                                                                         *)
(* One specification per component:                                        *)
(*   SpecResolver  resolve_driver_number_conflicts (Conflict Resolver)     *)
(*   SpecKeys      upsert_results, upsert_driver_numbers, CSV import       *)
(*   SpecLaps      upsert_laps (row-level Dedup/Upsert Engine)             *)
(*   SpecValidity  backfill_lap_validity (Lap Validity Deriver)            *)
(*   SpecPoints    upsert_points_awarding (Points Awarding Engine)         *)
(* A table is a set of rows (records); SQL NULL and Python None are the    *)
(* value NULL.                                                             *)
(***************************************************************************)
EXTENDS Integers, Sequences, FiniteSets, TLC

VARIABLES
    \* ---- Conflict Resolver: the records list and the returned dict
    crRecords, crResolved, crFirst,
    \* ---- canonical (silver) tables
    drivers,                    \* silver.drivers: set of driver_id
    driver_alias,               \* silver.driver_alias
    driver_id_by_session,       \* the view silver.driver_id_by_session
    driver_numbers_by_season,   \* silver.driver_numbers_by_season
    results,                    \* silver.results
    laps,                       \* silver.laps
    pit_stops,                  \* silver.pit_stops
    race_control,               \* silver.race_control
    sessions,                   \* silver.sessions joined with silver.meetings
    points_system,              \* silver.points_system
    \* ---- raw (bronze) tables
    laps_raw,                   \* bronze.laps_raw
    \* ---- bigserial sequence of silver.laps.lap_id
    next_lap_id,
    \* ---- pit stops and car telemetry
    pit_stops_raw,              \* bronze.pit_stops_raw
    car_telemetry_raw,          \* bronze.car_telemetry_raw
    car_telemetry,              \* silver.car_telemetry: row -> number of copies
    telemetry_unique,           \* UNIQUE (session_id, driver_id, date) is in place
    laps_runs,                  \* the upsert_laps processes that are running
    \* ---- update_database.py: the scripts of the pipeline run so far
    pipeline,
    \* ---- the last run of a script: what it read and what it found before it
    last_run

crVars == <<crRecords, crResolved, crFirst>>
dbVars == <<drivers, driver_alias, driver_id_by_session, driver_numbers_by_season, results, laps, pit_stops,
            race_control, sessions, points_system, laps_raw, next_lap_id>>
exVars == <<pit_stops_raw, car_telemetry_raw, car_telemetry, telemetry_unique, laps_runs,
           pipeline>>
vars == <<crVars, dbVars, exVars, last_run>>

\* SQL NULL / Python None, one per type so that values stay comparable:
\* a tri-state boolean or enum is a string, an optional integer is NullInt,
\* an optional str is NoStr (None and '' are both falsy in the code)
NULL == "NULL"
NullInt == 0 - 1
NoStr == <<>>

(***************************************************************************)
(* Generic helpers                                                         *)
(***************************************************************************)
MaxOf(S) == CHOOSE x \in S : \A y \in S : y <= x
MinOf(S) == CHOOSE x \in S : \A y \in S : x <= y
Range(f) == {f[i] : i \in DOMAIN f}

\* All sequences over S of length 1..n
SeqsUpTo(S, n) == UNION {[1..k -> S] : k \in 1..n}

\* The sequences that list every element of the finite set S exactly once
Orderings(S) ==
    {f \in [1..Cardinality(S) -> S] : \A x \in S : \E i \in DOMAIN f : f[i] = x}

(***************************************************************************)
(* Conflict Resolver: upsert_driver_numbers_by_season.py                   *)
(***************************************************************************)

\* SESSION_TYPE_PRIORITY.get(session_type, 0)
SessionTypePriority(session_type) ==
    CASE session_type = "race" -> 3
      [] session_type = "quali" -> 2
      [] session_type = "sprint_quali" -> 2
      [] session_type = "p1" -> 1
      [] session_type = "p2" -> 1
      [] session_type = "p3" -> 1
      [] session_type = "sprint" -> 1
      [] OTHER -> 0

\* The keys of `grouped`: (driver_id, season) of every record
GroupKeys(records) ==
    {<<records[i].driver_id, records[i].season>> : i \in DOMAIN records}

\* grouped[key]: the records of one (driver_id, season), in list order
GroupRecords(records, key) ==
    SelectSeq(records, LAMBDA r : <<r.driver_id, r.season>> = key)

\* priority_filtered: the records whose priority is the maximum present
PriorityFiltered(group_records) ==
    LET max_priority ==
            MaxOf({SessionTypePriority(group_records[i].session_type) :
                     i \in DOMAIN group_records})
    IN  SelectSeq(group_records,
                  LAMBDA r : SessionTypePriority(r.session_type) = max_priority)

\* Mutant: the frequency stage counts over the whole group
CountedRecordsWholeGroup(group_records) == group_records

\* The records the frequency stage iterates over (for r in priority_filtered)
CountedRecords(group_records) == PriorityFiltered(group_records)

\* number_counts[num]: occurrences of num among the counted records
NumberCount(counted, num) ==
    Cardinality({i \in DOMAIN counted : counted[i].driver_number = num})

\* The keys of number_counts in insertion order (first occurrence)
RECURSIVE NumbersInOrder(_)
NumbersInOrder(counted) ==
    IF counted = <<>> THEN <<>>
    ELSE LET front == NumbersInOrder(SubSeq(counted, 1, Len(counted) - 1))
             num == counted[Len(counted)].driver_number
         IN  IF num \in Range(front) THEN front ELSE Append(front, num)

\* most_frequent: the numbers whose count is max_count, in dict order
MostFrequent(counted) ==
    LET max_count ==
            MaxOf({NumberCount(counted, counted[i].driver_number) :
                     i \in DOMAIN counted})
    IN  SelectSeq(NumbersInOrder(counted),
                  LAMBDA num : NumberCount(counted, num) = max_count)

\* Mutant: the tiebreak takes the first of the tied numbers
FirstNumber(most_frequent) == most_frequent[1]

\* Priority 3: min(most_frequent)
LowestNumber(most_frequent) == MinOf(Range(most_frequent))

\* The body of the loop over grouped.items(): one group's resolved number
ResolveGroup(group_records) ==
    IF Len(group_records) = 1
    THEN group_records[1].driver_number
    ELSE LET priority_filtered == PriorityFiltered(group_records)
         IN  IF Len(priority_filtered) = 1
             THEN priority_filtered[1].driver_number
             ELSE LET most_frequent ==
                          MostFrequent(CountedRecords(group_records))
                  IN  IF Len(most_frequent) = 1
                      THEN most_frequent[1]
                      ELSE LowestNumber(most_frequent)

\* resolve_driver_number_conflicts: the dict (driver_id, season) -> number
resolve_driver_number_conflicts(records) ==
    [key \in GroupKeys(records) |-> ResolveGroup(GroupRecords(records, key))]

(***************************************************************************)
(* Strings: a Python str is a sequence of one-character strings            *)
(***************************************************************************)
LowerChars == <<"a", "b", "c", "d", "e", "f", "g", "h", "i", "j", "k", "l", "m",
                "n", "o", "p", "q", "r", "s", "t", "u", "v", "w", "x", "y", "z">>
UpperChars == <<"A", "B", "C", "D", "E", "F", "G", "H", "I", "J", "K", "L", "M",
                "N", "O", "P", "Q", "R", "S", "T", "U", "V", "W", "X", "Y", "Z">>
DigitChars == {"0", "1", "2", "3", "4", "5", "6", "7", "8", "9"}

AllChars == Range(LowerChars) \cup Range(UpperChars) \cup DigitChars
               \cup {" ", "-", "/", "\\", ":", "'", ".", "+"}
UpperMap ==
    [c \in AllChars |->
        IF \E i \in DOMAIN LowerChars : LowerChars[i] = c
        THEN UpperChars[CHOOSE i \in DOMAIN LowerChars : LowerChars[i] = c]
        ELSE c]
LowerMap ==
    [c \in AllChars |->
        IF \E i \in DOMAIN UpperChars : UpperChars[i] = c
        THEN LowerChars[CHOOSE i \in DOMAIN UpperChars : UpperChars[i] = c]
        ELSE c]
AlnumChars == Range(LowerChars) \cup Range(UpperChars) \cup DigitChars
\* str.upper(), str.lower(), str.isalnum() on one character
CharUpper(c) == UpperMap[c]
CharLower(c) == LowerMap[c]
StrUpper(str) == [i \in DOMAIN str |-> CharUpper(str[i])]
StrLower(str) == [i \in DOMAIN str |-> CharLower(str[i])]
IsAlnum(c) == c \in AlnumChars

\* The value of a string of decimal digits
RECURSIVE DigitsValue(_)
DigitsValue(str) ==
    IF str = <<>> THEN 0
    ELSE 10 * DigitsValue(SubSeq(str, 1, Len(str) - 1))
         + (CHOOSE n \in 0..9 : <<"0", "1", "2", "3", "4", "5", "6", "7", "8", "9">>[n + 1]
                                   = str[Len(str)])
IsDigits(str) == str # <<>> /\ \A i \in DOMAIN str : str[i] \in DigitChars

\* str.strip(): leading and trailing blanks removed
RECURSIVE StrStrip(_)
StrStrip(str) ==
    IF str = <<>> THEN <<>>
    ELSE IF Head(str) = " " THEN StrStrip(Tail(str))
    ELSE IF str[Len(str)] = " " THEN StrStrip(SubSeq(str, 1, Len(str) - 1))
    ELSE str

(***************************************************************************)
(* Entity Resolver of the car-number flow:                                 *)
(* upsert_driver_numbers_by_season.py                                      *)
(***************************************************************************)

\* sanitize(name), the helper inside generate_driver_id
Sanitize(name) ==
    IF name = <<>> THEN <<>>
    ELSE LET stripped == StrStrip(StrLower(name))
             hyphened == [i \in DOMAIN stripped |->
                            IF stripped[i] \in {" ", "/", "\\"} THEN "-"
                            ELSE stripped[i]]
         IN  SelectSeq(hyphened, LAMBDA c : IsAlnum(c) \/ c = "-")

\* generate_driver_id(first_name, last_name): drv:{first}-{last} or None
generate_driver_id(first_name, last_name) ==
    IF first_name = NoStr \/ last_name = NoStr
    THEN NoStr
    ELSE <<"d", "r", "v", ":">> \o Sanitize(first_name) \o <<"-">> \o Sanitize(last_name)

\* alias_map as a dict: `variant in alias_map` and alias_map[variant]
AliasHas(alias_map, text) == \E a \in alias_map : a.alias = text
AliasGet(alias_map, text) == (CHOOSE a \in alias_map : a.alias = text).driver_id

\* full_name_variants of the car-number flow, in list order
FullNameVariants(first_name, last_name) ==
    << first_name \o <<" ">> \o last_name,
       first_name \o <<" ">> \o StrUpper(last_name),
       StrUpper(first_name) \o <<" ">> \o last_name,
       StrUpper(first_name) \o <<" ">> \o StrUpper(last_name) >>

\* resolve_driver_id_from_alias: the first variant found in alias_map, or None
resolve_driver_id_from_alias(first_name, last_name, alias_map) ==
    LET variants == FullNameVariants(first_name, last_name)
        hits == {i \in DOMAIN variants : AliasHas(alias_map, variants[i])}
    IN  IF hits = {} THEN NoStr
        ELSE AliasGet(alias_map, variants[MinOf(hits)])

\* A variant that always synthesizes the id
RecordDriverIdSynthesized(record, alias_map) ==
    generate_driver_id(record.first_name, record.last_name)

\* Lines 273-289: the driver_id given to one record (alias, else generated)
RecordDriverId(record, alias_map) ==
    LET aliased == resolve_driver_id_from_alias(record.first_name, record.last_name, alias_map)
    IN  IF aliased # NoStr THEN aliased
        ELSE generate_driver_id(record.first_name, record.last_name)

(***************************************************************************)
(* Upserts keyed by a composite key                                        *)
(***************************************************************************)

\* Apply Op(table, row) to the rows of a list in order (executemany)
RECURSIVE ExecuteMany(_, _, _)
ExecuteMany(Op(_, _), table, rows) ==
    IF rows = <<>> THEN table
    ELSE ExecuteMany(Op, Op(table, Head(rows)), Tail(rows))

\* Mutant: a plain INSERT, without the ON CONFLICT clause
InsertDriverNumberPlain(table, row) == table \cup {row}

\* INSERT INTO silver.driver_numbers_by_season ... ON CONFLICT
\* (driver_id, season) DO UPDATE SET driver_number = EXCLUDED.driver_number
UpsertDriverNumber(table, row) ==
    IF \E r \in table : r.driver_id = row.driver_id /\ r.season = row.season
    THEN {IF r.driver_id = row.driver_id /\ r.season = row.season
          THEN [r EXCEPT !.driver_number = row.driver_number]
          ELSE r : r \in table}
    ELSE table \cup {row}

\* Mutant: a plain INSERT, without the ON CONFLICT clause
InsertResultPlain(table, row) == table \cup {row}

\* A variant whose DO UPDATE SET also writes points = EXCLUDED.points
UpsertResultWithPoints(table, row) ==
    {r \in table : ~(r.session_id = row.session_id /\ r.driver_id = row.driver_id)}
        \cup {row}

\* INSERT INTO silver.results ... ON CONFLICT (session_id, driver_id)
\* DO UPDATE SET every column but points
UpsertResult(table, row) ==
    IF \E r \in table : r.session_id = row.session_id /\ r.driver_id = row.driver_id
    THEN {IF r.session_id = row.session_id /\ r.driver_id = row.driver_id
          THEN [row EXCEPT !.points = r.points]
          ELSE r : r \in table}
    ELSE table \cup {row}

(***************************************************************************)
(* upsert_results.py                                                       *)
(***************************************************************************)

\* parse_int of upsert_results.py: int(value), None when blank or invalid
parse_int_results(value) ==
    IF value = NoStr \/ StrStrip(value) = <<>> THEN NullInt
    ELSE IF IsDigits(StrStrip(value)) THEN DigitsValue(StrStrip(value))
    ELSE NullInt

\* parse_boolean of upsert_results.py: False unless a spelling of true
parse_boolean_results(value) ==
    IF value = NoStr \/ StrStrip(value) = <<>> THEN FALSE
    ELSE StrLower(StrStrip(value)) \in
            {<<"t", "r", "u", "e">>, <<"t">>, <<"1">>, <<"y", "e", "s">>, <<"y">>}

\* derive_status(dnf, dns, dsq)
derive_status(dnf, dns, dsq) ==
    LET true_count == (IF dnf THEN 1 ELSE 0) + (IF dns THEN 1 ELSE 0)
                        + (IF dsq THEN 1 ELSE 0)
    IN  IF true_count > 1 THEN "nc"
        ELSE IF dnf THEN "dnf"
        ELSE IF dns THEN "dns"
        ELSE IF dsq THEN "dsq"
        ELSE "finished"

\* driver_id_map.get((openf1_session_key, driver_number)), None as NoStr
DriverIdMapGet(session_key, driver_number) ==
    LET hits == {m \in driver_id_by_session :
                    m.openf1_session_key = session_key /\ m.driver_number = driver_number}
    IN  IF hits = {} THEN NoStr ELSE (CHOOSE m \in hits : TRUE).driver_id

\* get_best_lap_map: MIN(lap_duration_ms) of the valid laps of a driver
BestLapMs(session_id, driver_id) ==
    LET ms == {l.lap_duration_ms : l \in
                  {l \in laps : /\ l.session_id = session_id
                                /\ l.driver_id = driver_id
                                /\ l.lap_duration_ms # NullInt
                                /\ l.is_valid = TRUE}}
    IN  IF ms = {} THEN NullInt ELSE MinOf(ms)

\* get_fastest_lap_map: MIN(lap_duration_ms) of the valid laps of a session
FastestLapMs(session_id) ==
    LET ms == {l.lap_duration_ms : l \in
                  {l \in laps : /\ l.session_id = session_id
                                /\ l.lap_duration_ms # NullInt
                                /\ l.is_valid = TRUE}}
    IN  IF ms = {} THEN NullInt ELSE MinOf(ms)

\* Lines 385-398: a record is skipped when its driver_number does not parse
\* or resolves to no driver_id
ResultRecordResolves(record) ==
    /\ parse_int_results(record.driver_number) # NullInt
    /\ DriverIdMapGet(record.openf1_session_key,
                      parse_int_results(record.driver_number)) # NoStr

\* Lines 400-451: the tuple appended to inserts_data for a resolved record
\* (of the payload columns, finish_position, laps_completed, status and
\* fastest_lap are kept; the others take the same path)
ResultRow(record) ==
    LET driver_id == DriverIdMapGet(record.openf1_session_key,
                                    parse_int_results(record.driver_number))
        best_lap_ms == BestLapMs(record.session_id, driver_id)
        fastest_lap_ms == FastestLapMs(record.session_id)
    IN  [session_id |-> record.session_id,
         driver_id |-> driver_id,
         finish_position |-> parse_int_results(record.position),
         laps_completed |-> parse_int_results(record.laps_completed),
         status |-> derive_status(parse_boolean_results(record.dnf),
                                  parse_boolean_results(record.dns),
                                  parse_boolean_results(record.dsq)),
         points |-> 0,
         fastest_lap |-> (best_lap_ms # NullInt /\ fastest_lap_ms # NullInt
                            /\ best_lap_ms = fastest_lap_ms)]

\* inserts_data: the rows of the resolved records, in list order
RECURSIVE InsertsData(_)
InsertsData(records) ==
    IF records = <<>> THEN <<>>
    ELSE IF ResultRecordResolves(Head(records))
         THEN <<ResultRow(Head(records))>> \o InsertsData(Tail(records))
         ELSE InsertsData(Tail(records))

\* upsert_results(conn, records, ...): silver.results after the commit
upsert_results(table, records) ==
    ExecuteMany(UpsertResult, table, InsertsData(records))

(***************************************************************************)
(* upsert_driver_numbers (car-number flow) and the CSV import              *)
(***************************************************************************)

\* Lines 273-292: records_with_id, each record with its driver_id
RECURSIVE RecordsWithId(_, _)
RecordsWithId(records, alias_map) ==
    IF records = <<>> THEN <<>>
    ELSE LET driver_id == RecordDriverId(Head(records), alias_map)
             rest == RecordsWithId(Tail(records), alias_map)
         IN  IF driver_id = NoStr THEN rest
             ELSE <<[driver_id |-> driver_id,
                     season |-> Head(records).season,
                     driver_number |-> Head(records).driver_number,
                     session_type |-> Head(records).session_type]>> \o rest

\* A variant without the check against silver.drivers
AllRecordsValid(records_with_id, driver_table) == records_with_id

\* Lines 298-312: only the records whose driver_id is in silver.drivers
ValidRecords(records_with_id, driver_table) ==
    SelectSeq(records_with_id, LAMBDA r : r.driver_id \in driver_table)

\* Lines 344-350: upsert_records, one per resolved (driver_id, season)
UpsertRecords(resolved_numbers) ==
    {[driver_id |-> key[1], season |-> key[2],
      driver_number |-> resolved_numbers[key]] : key \in DOMAIN resolved_numbers}

\* upsert_driver_numbers(conn, records, alias_map): the table after commit
upsert_driver_numbers(table, records, alias_map, driver_table) ==
    LET valid == ValidRecords(RecordsWithId(records, alias_map), driver_table)
    IN  IF valid = <<>> THEN table
        ELSE LET rows == UpsertRecords(resolve_driver_number_conflicts(valid))
             IN  ExecuteMany(UpsertDriverNumber, table,
                             CHOOSE order \in Orderings(rows) : TRUE)

\* generate_new_driver_id of import_driver_numbers_by_season.py
generate_new_driver_id(first_name, last_name) ==
    <<"d", "r", "v", ":">> \o Sanitize(first_name) \o <<"-">> \o Sanitize(last_name)

\* read_drivers_csv: old driver_id -> new driver_id, for the rows that
\* have an id and both names (a later row of the same id replaces an earlier)
CsvMappingGet(drivers_csv, old_driver_id) ==
    LET hits == {i \in DOMAIN drivers_csv :
                    /\ drivers_csv[i].driver_id = old_driver_id
                    /\ drivers_csv[i].driver_id # NoStr
                    /\ drivers_csv[i].first_name # NoStr
                    /\ drivers_csv[i].last_name # NoStr}
    IN  IF hits = {} THEN NoStr
        ELSE generate_new_driver_id(drivers_csv[MaxOf(hits)].first_name,
                                    drivers_csv[MaxOf(hits)].last_name)

\* Lines 217-247: insert_records, the CSV records that map to a driver of
\* silver.drivers
RECURSIVE InsertRecords(_, _, _)
InsertRecords(records, drivers_csv, driver_table) ==
    IF records = <<>> THEN <<>>
    ELSE LET new_driver_id == CsvMappingGet(drivers_csv, Head(records).driver_id)
             rest == InsertRecords(Tail(records), drivers_csv, driver_table)
         IN  IF new_driver_id = NoStr \/ new_driver_id \notin driver_table
             THEN rest
             ELSE <<[driver_id |-> new_driver_id,
                     season |-> Head(records).season,
                     driver_number |-> Head(records).driver_number]>> \o rest

\* insert_driver_numbers(conn, records, driver_id_mapping)
insert_driver_numbers(table, records, drivers_csv, driver_table) ==
    ExecuteMany(UpsertDriverNumber, table,
                InsertRecords(records, drivers_csv, driver_table))

(***************************************************************************)
(* SpecResolver: the Conflict Resolver applied to bounded record lists     *)
(***************************************************************************)
MaxObs == 3

CrDriverIds == {"drv:a", "drv:b"}
CrNumbers == {44, 63}
CrSeasons == {2024}
CrSessionTypes == {"race", "quali", "sprint_quali", "p1", "sprint"}

Observation ==
    [driver_id : CrDriverIds, season : CrSeasons,
     driver_number : CrNumbers, session_type : CrSessionTypes]

NoRun == [script |-> "none"]

\* No pit stop or telemetry rows, no pipeline run
ExIdle ==
    /\ pit_stops_raw = {}
    /\ car_telemetry_raw = {}
    /\ car_telemetry = <<>>
    /\ telemetry_unique = FALSE
    /\ laps_runs = <<>>
    /\ pipeline = <<>>

DbEmpty ==
    /\ drivers = {}
    /\ driver_alias = {}
    /\ driver_id_by_session = {}
    /\ driver_numbers_by_season = {}
    /\ results = {}
    /\ laps = {}
    /\ pit_stops = {}
    /\ race_control = {}
    /\ sessions = {}
    /\ points_system = {}
    /\ laps_raw = {}
    /\ next_lap_id = 1
    /\ ExIdle

CrIdle ==
    /\ crRecords = <<>>
    /\ crResolved = [ran |-> FALSE, dict |-> <<>>]
    /\ crFirst = [ran |-> FALSE, dict |-> <<>>, reordered |-> FALSE]

InitResolver ==
    /\ crRecords \in SeqsUpTo(Observation, MaxObs)
    /\ crResolved = [ran |-> FALSE, dict |-> <<>>]
    /\ crFirst = [ran |-> FALSE, dict |-> <<>>, reordered |-> FALSE]
    /\ DbEmpty
    /\ last_run = NoRun

\* A call resolve_driver_number_conflicts(records) on the current list
ResolveConflictsRun ==
    /\ ~crResolved.ran
    /\ LET dict == resolve_driver_number_conflicts(crRecords)
       IN  /\ crResolved' = [ran |-> TRUE, dict |-> dict]
           /\ crFirst' = IF crFirst.ran THEN crFirst
                         ELSE [ran |-> TRUE, dict |-> dict, reordered |-> FALSE]
    /\ UNCHANGED <<crRecords, dbVars, exVars, last_run>>

\* The same observations arrive in another order (two neighbours swapped)
ReorderRecords ==
    /\ \E i \in 1..(Len(crRecords) - 1) :
          /\ crRecords[i] # crRecords[i + 1]
          /\ crRecords' = [crRecords EXCEPT ![i] = crRecords[i + 1],
                                            ![i + 1] = crRecords[i]]
    /\ crResolved' = [ran |-> FALSE, dict |-> <<>>]
    /\ crFirst' = [crFirst EXCEPT !.reordered = crFirst.ran]
    /\ UNCHANGED <<dbVars, exVars, last_run>>

NextResolver == ResolveConflictsRun \/ ReorderRecords

SpecResolver == InitResolver /\ [][NextResolver]_vars

\* ---- the three stages as the specification states them, on one group ----
StageWeight(session_type) ==
    CASE session_type = "race" -> 3
      [] session_type \in {"quali", "sprint_quali"} -> 2
      [] session_type \in {"p1", "p2", "p3", "sprint"} -> 1

ThreeStages(group) ==
    LET top == MaxOf({StageWeight(group[i].session_type) : i \in DOMAIN group})
        survivors == {i \in DOMAIN group : StageWeight(group[i].session_type) = top}
        count(v) == Cardinality({i \in survivors : group[i].driver_number = v})
        values == {group[i].driver_number : i \in survivors}
        kept == {v \in values : \A u \in values : count(u) <= count(v)}
    IN  MinOf(kept)

\* C1: whatever order the records of an observation set arrive in,
\* resolve_driver_number_conflicts returns the same number for every
\* (driver, season): the dict of a reordered list equals the dict of the
\* first list resolved.
C1_OrderIndependent ==
    (crResolved.ran /\ crFirst.ran) => crResolved.dict = crFirst.dict

\* A list reordered since the first call has been resolved, and in one of
\* its groups the tied numbers arrive with a higher number first.
C1_Witness ==
    /\ crResolved.ran
    /\ crFirst.ran
    /\ crFirst.reordered
    /\ \E key \in GroupKeys(crRecords) :
          LET tied == MostFrequent(PriorityFiltered(GroupRecords(crRecords, key)))
          IN  Len(tied) > 1 /\ tied[1] > crResolved.dict[key]

\* C2: the number returned for each (driver, season) is the outcome of the
\* three stages in order: keep the maximum context weight, then the most
\* frequent value(s) among those, then the lowest value.
C2_ThreeStages ==
    crResolved.ran =>
        /\ DOMAIN crResolved.dict = GroupKeys(crRecords)
        /\ \A key \in GroupKeys(crRecords) :
              crResolved.dict[key] = ThreeStages(GroupRecords(crRecords, key))

\* A resolved group in which each stage discards something: a record of
\* lower weight, then a less frequent value, then the higher of two values
\* is impossible with three records, so the witness asks for the first and
\* the last: a lower-weight record dropped and a tie broken by the minimum.
C2_Witness ==
    /\ crResolved.ran
    /\ \E key \in GroupKeys(crRecords) :
          LET group == GroupRecords(crRecords, key)
              kept == PriorityFiltered(group)
          IN  /\ Len(kept) < Len(group)
              /\ Len(MostFrequent(kept)) > 1
              /\ \E i \in DOMAIN group :
                    /\ group[i].driver_number > crResolved.dict[key]
                    /\ SessionTypePriority(group[i].session_type) = 1

(***************************************************************************)
(* SpecKeys: runs of upsert_results, upsert_driver_numbers and the CSV     *)
(* import over the tables keyed by (session, driver) and (driver, season)  *)
(***************************************************************************)
MaxBatch == 2

\* Two drivers of silver.drivers; the first is reached through an alias
DrvMaxV == <<"d", "r", "v", ":", "m", "a", "x", "-", "v">>
DrvLiNo == <<"d", "r", "v", ":", "l", "i", "-", "n", "o">>
KeyDrivers == {DrvMaxV, DrvLiNo}
KeyAliases == {[alias |-> <<"M", "a", "x", " ", "V", "E", "R">>, driver_id |-> DrvMaxV]}
KeySeasons == {2023, 2024}
KeyNumbers == {44, 63}

\* bronze.drivers_raw joined with sessions and meetings (SELECT DISTINCT):
\* a driver known by alias in two seasons, a driver known by generated id,
\* and a driver who is not in silver.drivers
DriverNumberRecord ==
    {[first_name |-> <<"M", "a", "x">>, last_name |-> <<"V", "e", "r">>,
      driver_number |-> n, season |-> y, session_type |-> "race"] :
        n \in KeyNumbers, y \in KeySeasons}
    \cup {[first_name |-> <<"L", "i">>, last_name |-> <<"N", "o">>,
           driver_number |-> n, season |-> 2024, session_type |-> "race"] :
             n \in KeyNumbers}
    \cup {[first_name |-> <<"A", "l">>, last_name |-> <<"B", "o">>,
           driver_number |-> 44, season |-> 2024, session_type |-> "race"]}

\* The drivers export CSV and the rows of the driver numbers CSV
DriversCsv ==
    << [driver_id |-> <<"o", "1">>, first_name |-> <<"L", "i">>, last_name |-> <<"N", "o">>],
       [driver_id |-> <<"o", "2">>, first_name |-> <<"A", "l">>, last_name |-> <<"B", "o">>] >>
DriverNumberCsvRecord ==
    {[driver_id |-> <<"o", "1">>, season |-> 2024, driver_number |-> n] :
        n \in KeyNumbers}
    \cup {[driver_id |-> id, season |-> 2024, driver_number |-> 44] :
            id \in {<<"o", "2">>, <<"o", "3">>}}

\* bronze.results_raw joined with silver.sessions (SELECT DISTINCT)
KeySessions == {[openf1_session_key |-> "9001", session_id |-> "ses:1"],
                [openf1_session_key |-> "9002", session_id |-> "ses:2"]}
RawResult(ks, n, pos) ==
    [openf1_session_key |-> ks.openf1_session_key, session_id |-> ks.session_id,
     driver_number |-> n, position |-> pos, laps_completed |-> <<"5", "7">>,
     dnf |-> <<"f", "a", "l", "s", "e">>, dns |-> <<"f", "a", "l", "s", "e">>,
     dsq |-> <<"f", "a", "l", "s", "e">>]
RawResultRecord ==
    {RawResult(ks, <<"4", "4">>, <<"1">>) : ks \in KeySessions}
    \cup {RawResult(ks, n, <<"2">>) :
            ks \in {k \in KeySessions : k.openf1_session_key = "9001"},
            n \in {<<"4", "4">>, <<"6", "3">>, <<"x">>}}

KeyDriverIdBySession ==
    {[openf1_session_key |-> ks.openf1_session_key, driver_number |-> 44,
      driver_id |-> DrvMaxV] : ks \in KeySessions}
    \cup {[openf1_session_key |-> "9001", driver_number |-> 63, driver_id |-> DrvLiNo]}

\* SELECT DISTINCT: no row twice
Distinct(records) ==
    \A i, j \in DOMAIN records : i # j => records[i] # records[j]

\* ORDER BY s.session_id, rr.position: the rows of a session are contiguous
\* and in the order of their position text
ResultsOrdered(records) ==
    \A i, j \in DOMAIN records :
        (i < j /\ records[i].session_id = records[j].session_id) =>
            /\ \A k \in i..j : records[k].session_id = records[i].session_id
            /\ parse_int_results(records[i].position)
                  <= parse_int_results(records[j].position)

\* ORDER BY m.season, dr.last_name, dr.first_name
SeasonOrdered(records) ==
    \A i, j \in DOMAIN records : i < j => records[i].season <= records[j].season

InitKeys ==
    /\ CrIdle
    /\ drivers = KeyDrivers
    /\ driver_alias = KeyAliases
    /\ driver_id_by_session = KeyDriverIdBySession
    /\ driver_numbers_by_season = {}
    /\ results = {}
    /\ laps = {}
    /\ pit_stops = {}
    /\ race_control = {}
    /\ sessions = {}
    /\ points_system = {}
    /\ laps_raw = {}
    /\ next_lap_id = 1
    /\ ExIdle
    /\ last_run = NoRun

\* What a run leaves in last_run: the script, and whether some row it wrote
\* met a row of the same key (in the table or earlier in the same batch)
KeyRun(script, written, before, after) ==
    [script |-> script,
     collided |-> written > Cardinality(after) - Cardinality(before)]

\* main of upsert_results.py on the rows it finds in bronze.results_raw
UpsertResultsRun ==
    \E records \in SeqsUpTo(RawResultRecord, MaxBatch) :
        /\ Distinct(records)
        /\ ResultsOrdered(records)
        /\ results' = upsert_results(results, records)
        /\ last_run' = KeyRun("upsert_results", Len(InsertsData(records)),
                              results, results')
        /\ UNCHANGED <<crVars, drivers, driver_alias, driver_id_by_session,
                       driver_numbers_by_season, laps, pit_stops, race_control,
                       sessions, points_system, laps_raw, next_lap_id, exVars>>

\* main of upsert_driver_numbers_by_season.py
UpsertDriverNumbersRun ==
    \E records \in SeqsUpTo(DriverNumberRecord, MaxBatch) :
        /\ Distinct(records)
        /\ SeasonOrdered(records)
        /\ driver_numbers_by_season' =
              upsert_driver_numbers(driver_numbers_by_season, records,
                                    driver_alias, drivers)
        /\ last_run' =
              KeyRun("upsert_driver_numbers",
                     Cardinality(GroupKeys(
                         ValidRecords(RecordsWithId(records, driver_alias), drivers))),
                     driver_numbers_by_season, driver_numbers_by_season')
        /\ UNCHANGED <<crVars, drivers, driver_alias, driver_id_by_session,
                       results, laps, pit_stops, race_control,
                       sessions, points_system, laps_raw, next_lap_id, exVars>>

\* main of import_driver_numbers_by_season.py
InsertDriverNumbersRun ==
    \E records \in SeqsUpTo(DriverNumberCsvRecord, MaxBatch) :
        /\ driver_numbers_by_season' =
              insert_driver_numbers(driver_numbers_by_season, records,
                                    DriversCsv, drivers)
        /\ last_run' =
              KeyRun("insert_driver_numbers",
                     Len(InsertRecords(records, DriversCsv, drivers)),
                     driver_numbers_by_season, driver_numbers_by_season')
        /\ UNCHANGED <<crVars, drivers, driver_alias, driver_id_by_session,
                       results, laps, pit_stops, race_control,
                       sessions, points_system, laps_raw, next_lap_id, exVars>>

NextKeys == UpsertResultsRun \/ UpsertDriverNumbersRun \/ InsertDriverNumbersRun

SpecKeys == InitKeys /\ [][NextKeys]_vars

\* C3: after any sequence of runs of the three scripts, silver.results has
\* at most one row per (session_id, driver_id) and
\* silver.driver_numbers_by_season at most one row per (driver_id, season).
C3_CompositeKeysUnique ==
    /\ \A r1, r2 \in results :
          (r1.session_id = r2.session_id /\ r1.driver_id = r2.driver_id) => r1 = r2
    /\ \A n1, n2 \in driver_numbers_by_season :
          (n1.driver_id = n2.driver_id /\ n1.season = n2.season) => n1 = n2

\* The last run wrote a row whose key was already taken, and both tables
\* hold rows of two drivers.
C3_Witness ==
    /\ last_run.script = "upsert_results"
    /\ last_run.collided
    /\ Cardinality(results) >= 2
    /\ Cardinality(driver_numbers_by_season) >= 3
    /\ \E n \in driver_numbers_by_season : n.driver_number = 63 /\ n.driver_id = DrvMaxV

(***************************************************************************)
(* Row-level Dedup/Upsert Engine: upsert_laps.py                           *)
(***************************************************************************)
UtcOffset == <<"+", "0", "0", ":", "0", "0">>

\* date_str.replace('Z', '+00:00')
RECURSIVE ReplaceZ(_)
ReplaceZ(str) ==
    IF str = <<>> THEN <<>>
    ELSE (IF Head(str) = "Z" THEN UtcOffset ELSE <<Head(str)>>) \o ReplaceZ(Tail(str))

\* parse_timestamp: datetime.fromisoformat of the text with Z replaced.
\* The date and time of day are shortened to a string of digits and the
\* instant is its value; a text that is not <digits><UTC offset> gives None.
parse_timestamp(date_str) ==
    IF date_str = NoStr THEN NullInt
    ELSE LET iso == ReplaceZ(date_str)
             n == Len(iso) - Len(UtcOffset)
         IN  IF /\ n >= 1
                /\ SubSeq(iso, n + 1, Len(iso)) = UtcOffset
                /\ IsDigits(SubSeq(iso, 1, n))
             THEN DigitsValue(SubSeq(iso, 1, n))
             ELSE NullInt

\* The whole and the fractional digits of an unsigned decimal text, as
\* float(value) reads it; NoStr for the whole part when it is no such text
DecimalParts(value) ==
    LET str == StrStrip(value)
        dots == {i \in DOMAIN str : str[i] = "."}
    IN  IF IsDigits(str) THEN [whole |-> str, frac |-> <<>>]
        ELSE IF Cardinality(dots) = 1
        THEN LET d == CHOOSE i \in dots : TRUE
                 whole == SubSeq(str, 1, d - 1)
                 frac == SubSeq(str, d + 1, Len(str))
             IN  IF IsDigits(whole) /\ (frac = <<>> \/ IsDigits(frac))
                 THEN [whole |-> whole, frac |-> frac]
                 ELSE [whole |-> NoStr, frac |-> <<>>]
        ELSE [whole |-> NoStr, frac |-> <<>>]

\* parse_int of upsert_laps.py: int(float(value)), so "5.0" is 5
parse_int_laps(value) ==
    IF value = NoStr \/ StrStrip(value) = <<>> THEN NullInt
    ELSE IF DecimalParts(value).whole = NoStr THEN NullInt
    ELSE DigitsValue(DecimalParts(value).whole)

\* parse_boolean of upsert_laps.py: True, False or None
parse_boolean_laps(value) ==
    IF value = NoStr \/ StrStrip(value) = <<>> THEN NULL
    ELSE IF StrLower(StrStrip(value)) \in
              {<<"t", "r", "u", "e">>, <<"t">>, <<"1">>, <<"y", "e", "s">>, <<"y">>}
         THEN "true"
    ELSE IF StrLower(StrStrip(value)) \in
              {<<"f", "a", "l", "s", "e">>, <<"f">>, <<"0">>, <<"n", "o">>, <<"n">>}
         THEN "false"
    ELSE NULL

\* convert_seconds_to_ms: int(float(seconds_str) * 1000), for texts with at
\* most three fractional digits whose product is exact in binary
convert_seconds_to_ms(seconds_str) ==
    IF seconds_str = NoStr \/ StrStrip(seconds_str) = <<>> THEN NullInt
    ELSE LET parts == DecimalParts(seconds_str)
             padded == SubSeq(parts.frac \o <<"0", "0", "0">>, 1, 3)
         IN  IF parts.whole = NoStr THEN NullInt
             ELSE 1000 * DigitsValue(parts.whole) + DigitsValue(padded)

\* CAST(lr.driver_number AS INT) of a text of digits
CastInt(text) == IF IsDigits(text) THEN DigitsValue(text) ELSE NullInt

\* get_laps_from_bronze: SELECT DISTINCT of bronze.laps_raw joined with the
\* session (and its season) and with silver.driver_numbers_by_season
LapsFromBronze ==
    {[openf1_session_key |-> t[1].openf1_session_key,
      driver_number |-> t[1].driver_number,
      lap_number |-> t[1].lap_number,
      date_start |-> t[1].date_start,
      lap_duration_s |-> t[1].lap_duration_s,
      is_pit_out_lap |-> t[1].is_pit_out_lap,
      session_id |-> t[2].session_id,
      season |-> t[2].season,
      driver_id |-> t[3].driver_id] :
        t \in {u \in laps_raw \X sessions \X driver_numbers_by_season :
                  /\ u[1].openf1_session_key = u[2].openf1_session_key
                  /\ CastInt(u[1].driver_number) = u[3].driver_number
                  /\ u[2].season = u[3].season}}

\* Text order of two strings (byte order of the characters used in dates)
CharRank(c) ==
    CHOOSE n \in 1..13 :
        <<"+", "0", "1", "2", "3", "4", "5", "6", "7", "8", "9", ":", "Z">>[n] = c
RECURSIVE TextLess(_, _)
TextLess(a, b) ==
    IF b = <<>> THEN FALSE
    ELSE IF a = <<>> THEN TRUE
    ELSE IF Head(a) = Head(b) THEN TextLess(Tail(a), Tail(b))
    ELSE CharRank(Head(a)) < CharRank(Head(b))

\* ORDER BY lr.date_start: the lists the query can return, rows of equal
\* text in any order
RECURSIVE DateStartOrdered(_)
DateStartOrdered(rows) ==
    IF rows = {} THEN {<<>>}
    ELSE LET earliest == {r \in rows :
                             ~\E q \in rows : TextLess(q.date_start, r.date_start)}
         IN  UNION {{<<r>> \o rest : rest \in DateStartOrdered(rows \ {r})} :
                       r \in earliest}

\* The natural key of a lap
LapKey(l) == <<l.session_id, l.driver_id, l.lap_number, l.date_start>>

\* Lines 353-412: upsert_records, the parsed records that pass validation
RECURSIVE UpsertRecordsLaps(_)
UpsertRecordsLaps(records) ==
    IF records = <<>> THEN <<>>
    ELSE LET lap == Head(records)
             rest == UpsertRecordsLaps(Tail(records))
         IN  IF \/ lap.session_id = ""
                \/ lap.driver_id = NoStr
                \/ parse_int_laps(lap.lap_number) = NullInt
                \/ parse_timestamp(lap.date_start) = NullInt
             THEN rest
             ELSE <<[session_id |-> lap.session_id,
                     driver_id |-> lap.driver_id,
                     lap_number |-> parse_int_laps(lap.lap_number),
                     date_start |-> parse_timestamp(lap.date_start),
                     lap_duration_ms |-> convert_seconds_to_ms(lap.lap_duration_s),
                     is_pit_out_lap |-> parse_boolean_laps(lap.is_pit_out_lap)]>>
                  \o rest

\* Lines 418-452: the dicts existing_laps can be after the batch check. A
\* key found in silver.laps maps to the lap_id of the row fetched last,
\* and the check query has no ORDER BY.
ExistingLaps(table, upsert_records) ==
    LET found == {k \in {LapKey(r) : r \in Range(upsert_records)} :
                     \E l \in table : LapKey(l) = k}
    IN  {e \in [found -> {l.lap_id : l \in table}] :
            \A k \in found : \E l \in table : LapKey(l) = k /\ l.lap_id = e[k]}

\* insert_sql on the records of a list in order; lap_id is a bigserial
RECURSIVE InsertLaps(_, _, _)
InsertLaps(table, records, lap_id) ==
    IF records = <<>> THEN table
    ELSE InsertLaps(table \cup {[lap_id |-> lap_id,
                                 session_id |-> Head(records).session_id,
                                 driver_id |-> Head(records).driver_id,
                                 lap_number |-> Head(records).lap_number,
                                 date_start |-> Head(records).date_start,
                                 lap_duration_ms |-> Head(records).lap_duration_ms,
                                 is_pit_out_lap |-> Head(records).is_pit_out_lap,
                                 is_pit_in_lap |-> FALSE,
                                 is_valid |-> TRUE]},
                    Tail(records), lap_id + 1)

\* update_sql: the payload of the row WHERE lap_id = record.lap_id
UpdateLap(table, record) ==
    {IF l.lap_id = record.lap_id
     THEN [l EXCEPT !.lap_duration_ms = record.lap_duration_ms,
                    !.is_pit_out_lap = record.is_pit_out_lap]
     ELSE l : l \in table}

\* Lines 456-541: silver.laps after the inserts and then the updates
upsert_laps(table, upsert_records, existing_laps, lap_id) ==
    LET records_to_insert ==
            SelectSeq(upsert_records, LAMBDA r : LapKey(r) \notin DOMAIN existing_laps)
        found == SelectSeq(upsert_records, LAMBDA r : LapKey(r) \in DOMAIN existing_laps)
        records_to_update ==
            [i \in DOMAIN found |->
                [lap_id |-> existing_laps[LapKey(found[i])],
                 lap_duration_ms |-> found[i].lap_duration_ms,
                 is_pit_out_lap |-> found[i].is_pit_out_lap]]
    IN  ExecuteMany(UpdateLap, InsertLaps(table, records_to_insert, lap_id),
                    records_to_update)

(***************************************************************************)
(* SpecLaps: rows arrive in bronze.laps_raw and upsert_laps runs           *)
(***************************************************************************)
MaxRaw == 3

LapSessions ==
    {[session_id |-> "ses:1", openf1_session_key |-> "9001", season |-> 2024,
      points_awarding |-> "race", scheduled_laps |-> 50],
     [session_id |-> "ses:2", openf1_session_key |-> "9002", season |-> 2024,
      points_awarding |-> "none", scheduled_laps |-> NullInt]}
LapDriverNumbers == {[driver_id |-> DrvMaxV, season |-> 2024, driver_number |-> 44]}

\* What the laps endpoint can return for a session. For 9001: one lap of
\* car 44 with two durations and with its lap number and its start spelled
\* in a second way, a lap of a car without a driver, a lap without a lap
\* number and a lap whose start does not parse. For 9002: one lap of car
\* 44 timed twice.
RawLap(session_key, driver_number, lap_number, date_start, lap_duration_s) ==
    [openf1_session_key |-> session_key, driver_number |-> driver_number,
     lap_number |-> lap_number, date_start |-> date_start,
     lap_duration_s |-> lap_duration_s, is_pit_out_lap |-> <<"f", "a", "l", "s", "e">>]
RawLaps(session_key) ==
    IF session_key = "9001"
    THEN {RawLap("9001", <<"4", "4">>, <<"1">>, <<"7", "Z">>, <<"9", "0", ".", "5">>),
          RawLap("9001", <<"4", "4">>, <<"1">>, <<"7", "Z">>, <<"9", "1">>),
          RawLap("9001", <<"4", "4">>, <<"1", ".", "0">>, <<"7", "Z">>, <<"9", "1">>),
          RawLap("9001", <<"4", "4">>, <<"1">>, <<"7">> \o UtcOffset, <<"9", "1">>)}
         \cup {RawLap("9001", <<"6", "3">>, <<"1">>, <<"7", "Z">>, <<"9", "1">>),
               RawLap("9001", <<"4", "4">>, <<>>, <<"7", "Z">>, <<"9", "1">>),
               RawLap("9001", <<"4", "4">>, <<"2">>, <<"7">>, <<"9", "1">>)}
    ELSE {RawLap("9002", <<"4", "4">>, <<"1">>, <<"8", "Z">>, s) :
            s \in {<<"9", "0", ".", "5">>, <<"9", "1">>}}

\* silver.driver_numbers_by_season after upsert_driver_numbers has written
\* car 44 for a second driver of the season (ON CONFLICT is on
\* (driver_id, season), so the number is not unique in a season)
SharedCarNumber ==
    LapDriverNumbers
    \cup {[driver_id |-> DrvLiNo, season |-> 2024, driver_number |-> 44]}

InitLaps ==
    /\ CrIdle
    /\ drivers = {DrvMaxV}
    /\ driver_alias = {}
    /\ driver_id_by_session = {}
    /\ driver_numbers_by_season = LapDriverNumbers
    /\ results = {}
    /\ laps = {}
    /\ pit_stops = {}
    /\ race_control = {}
    /\ sessions = LapSessions
    /\ points_system = {}
    /\ laps_raw = {}
    /\ next_lap_id = 1
    /\ ExIdle
    /\ last_run = NoRun

\* main of ingest_laps.py: for a session that has no row in
\* bronze.laps_raw yet, the laps the endpoint returns are inserted by a
\* plain INSERT (insert_laps)
IngestLapsRun ==
    /\ \E session \in sessions :
          /\ ~\E row \in laps_raw : row.openf1_session_key = session.openf1_session_key
          /\ \E fetched \in SUBSET RawLaps(session.openf1_session_key) :
                /\ fetched # {}
                /\ Cardinality(fetched) <= MaxRaw
                /\ laps_raw' = laps_raw \cup fetched
    /\ last_run' = [script |-> "ingest_laps"]
    /\ UNCHANGED <<crVars, drivers, driver_alias, driver_id_by_session,
                   driver_numbers_by_season, results, laps, pit_stops,
                   race_control, sessions, points_system, next_lap_id, exVars>>

\* main of upsert_laps.py. last_run keeps whether the run before it was an
\* upsert_laps run over the same raw rows and, if so, the table it found.
UpsertLapsRun ==
    \E laps_list \in DateStartOrdered(LapsFromBronze) :
        \E upsert_records \in {UpsertRecordsLaps(laps_list)} :
            \E existing_laps \in ExistingLaps(laps, upsert_records) :
                /\ laps' = upsert_laps(laps, upsert_records, existing_laps,
                                       next_lap_id)
                /\ next_lap_id' = next_lap_id
                       + Cardinality({i \in DOMAIN upsert_records :
                            LapKey(upsert_records[i]) \notin DOMAIN existing_laps})
                /\ last_run' = [script |-> "upsert_laps",
                                repeat |-> last_run.script = "upsert_laps",
                                before |-> IF last_run.script = "upsert_laps"
                                           THEN laps ELSE {}]
                /\ UNCHANGED <<crVars, drivers, driver_alias, driver_id_by_session,
                               driver_numbers_by_season, results, pit_stops,
                               race_control, sessions, points_system, laps_raw, exVars>>

NextLaps == IngestLapsRun \/ UpsertLapsRun

SpecLaps == InitLaps /\ [][NextLaps]_vars

\* C4: a second upsert_laps run over the same raw rows leaves silver.laps
\* with the row count and the row content the first run left.
C4_RerunSameRows ==
    (last_run.script = "upsert_laps" /\ last_run.repeat) =>
        /\ Cardinality(laps) = Cardinality(last_run.before)
        /\ laps = last_run.before

\* C5: silver.laps never holds two rows with the same
\* (session_id, driver_id, lap_number, date_start).
C5_NaturalKeyUnique ==
    \A l1, l2 \in laps : LapKey(l1) = LapKey(l2) => l1 = l2

(***************************************************************************)
(* Lap Validity Deriver: backfill_lap_validity.py                          *)
(***************************************************************************)

\* text LIKE '%pattern%'
Contains(text, pattern) ==
    \E i \in 1..(Len(text) - Len(pattern) + 1) :
        SubSeq(text, i, i + Len(pattern) - 1) = pattern

\* get_pit_in_lap_ids, and the subquery of steps 1 and 2:
\* SELECT DISTINCT lap_id FROM silver.pit_stops WHERE lap_id IS NOT NULL
get_pit_in_lap_ids(pit_stop_table) ==
    {ps.lap_id : ps \in {q \in pit_stop_table : q.lap_id # NullInt}}

\* get_deleted_lap_ids: the referenced laps of the messages whose text
\* holds "deleted" in any case
get_deleted_lap_ids(race_control_table) ==
    {rc.referenced_lap_id :
        rc \in {q \in race_control_table :
                   /\ q.referenced_lap_id # NullInt
                   /\ q.message # NoStr
                   /\ Contains(StrLower(q.message), <<"d", "e", "l", "e", "t", "e", "d">>)}}

\* Step 1: is_pit_in_lap = TRUE WHERE lap_id IN (pit stops)
SetPitInLaps(table, pit_stop_table) ==
    {IF l.lap_id \in get_pit_in_lap_ids(pit_stop_table)
     THEN [l EXCEPT !.is_pit_in_lap = TRUE] ELSE l : l \in table}

\* A variant without step 2: flags are set and never cleared
KeepPitInLaps(table, pit_stop_table) == table

\* Step 2: is_pit_in_lap = FALSE WHERE lap_id NOT IN (pit stops)
ClearPitInLaps(table, pit_stop_table) ==
    {IF l.lap_id \notin get_pit_in_lap_ids(pit_stop_table)
     THEN [l EXCEPT !.is_pit_in_lap = FALSE] ELSE l : l \in table}

\* Step 3, first statement: is_valid = TRUE for every lap
SetAllValid(table) == {[l EXCEPT !.is_valid = TRUE] : l \in table}

\* A variant of an invalidation that invalidates nothing
SkipCheck(table) == table

\* Step 3, the three invalidations
InvalidatePitOut(table) ==
    {IF l.is_pit_out_lap = "true" THEN [l EXCEPT !.is_valid = FALSE] ELSE l : l \in table}
InvalidatePitIn(table) ==
    {IF l.is_pit_in_lap THEN [l EXCEPT !.is_valid = FALSE] ELSE l : l \in table}
InvalidateDeleted(table, deleted_lap_ids) ==
    IF deleted_lap_ids = {} THEN table
    ELSE {IF l.lap_id \in deleted_lap_ids THEN [l EXCEPT !.is_valid = FALSE] ELSE l :
             l \in table}

\* The invalidations of a list of checks, applied in the order of the list
RECURSIVE ApplyChecks(_, _, _)
ApplyChecks(checks, table, deleted_lap_ids) ==
    IF checks = <<>> THEN table
    ELSE ApplyChecks(Tail(checks),
                     CASE Head(checks) = "pit_out" -> InvalidatePitOut(table)
                       [] Head(checks) = "pit_in" -> InvalidatePitIn(table)
                       [] Head(checks) = "deleted" ->
                            InvalidateDeleted(table, deleted_lap_ids),
                     deleted_lap_ids)

\* The order of the statements in update_lap_validity
CheckOrder == <<"pit_out", "pit_in", "deleted">>

\* A variant that derives is_valid before it refreshes is_pit_in_lap
update_lap_validity_stale_pit_in(table, pit_stop_table, deleted_lap_ids) ==
    ClearPitInLaps(SetPitInLaps(
        ApplyChecks(CheckOrder, SetAllValid(table), deleted_lap_ids),
        pit_stop_table), pit_stop_table)

\* update_lap_validity(conn, pit_in_lap_ids, deleted_lap_ids): silver.laps
\* at the commit
update_lap_validity(table, pit_stop_table, deleted_lap_ids) ==
    ApplyChecks(CheckOrder,
                SetAllValid(ClearPitInLaps(SetPitInLaps(table, pit_stop_table),
                                           pit_stop_table)),
                deleted_lap_ids)

(***************************************************************************)
(* SpecValidity: pit stops and race-control messages arrive, lap payloads  *)
(* are rewritten, and backfill_lap_validity runs                           *)
(***************************************************************************)
MaxLapId == 2

TriState == {"true", "false", NULL}

\* A lap as upsert_laps inserts it
NewLap(lap_id, is_pit_out_lap) ==
    [lap_id |-> lap_id, session_id |-> "ses:1", driver_id |-> DrvMaxV,
     lap_number |-> lap_id, date_start |-> 7 + lap_id, lap_duration_ms |-> 90500,
     is_pit_out_lap |-> is_pit_out_lap, is_pit_in_lap |-> FALSE, is_valid |-> TRUE]

\* Rows upsert_pit_stops can write (lap_id is always resolved)
PitStopRows == {[pit_stop_id |-> i, lap_id |-> i] : i \in 1..2}

\* Rows upsert_race_control can write
Message(text, referenced_lap_id) ==
    [session_id |-> "ses:1", category |-> "Other", flag |-> NULL, scope |-> NULL,
     message |-> text, referenced_lap_id |-> referenced_lap_id]
ValidityMessages ==
    {Message(<<"D", "e", "l", "e", "t", "e", "d">>, 2),
     Message(<<"T", "1", " ", "D", "E", "L", "E", "T", "E", "D">>, 1),
     Message(<<"D", "E", "L", "E", "T", "E">>, 1),
     Message(<<"d", "e", "l", "e", "t", "e", "d">>, NullInt)}

InitValidity ==
    /\ CrIdle
    /\ drivers = {DrvMaxV}
    /\ driver_alias = {}
    /\ driver_id_by_session = {}
    /\ driver_numbers_by_season = LapDriverNumbers
    /\ results = {}
    /\ \E out \in [1..MaxLapId -> TriState] :
          laps = {NewLap(i, out[i]) : i \in 1..MaxLapId}
    /\ pit_stops = {}
    /\ race_control = {}
    /\ sessions = LapSessions
    /\ points_system = {}
    /\ laps_raw = {}
    /\ next_lap_id = MaxLapId + 1
    /\ ExIdle
    /\ last_run = NoRun

\* upsert_pit_stops.py inserts a pit stop of a lap
UpsertPitStopsRun ==
    /\ \E row \in PitStopRows \ pit_stops : pit_stops' = pit_stops \cup {row}
    /\ last_run' = [script |-> "upsert_pit_stops"]
    /\ UNCHANGED <<crVars, drivers, driver_alias, driver_id_by_session,
                   driver_numbers_by_season, results, laps, race_control,
                   sessions, points_system, laps_raw, next_lap_id, exVars>>

\* upsert_race_control.py inserts a message
UpsertRaceControlRun ==
    /\ \E row \in ValidityMessages \ race_control :
          race_control' = race_control \cup {row}
    /\ last_run' = [script |-> "upsert_race_control"]
    /\ UNCHANGED <<crVars, drivers, driver_alias, driver_id_by_session,
                   driver_numbers_by_season, results, laps, pit_stops,
                   sessions, points_system, laps_raw, next_lap_id, exVars>>

\* upsert_laps.py rewrites the payload of an existing lap (update_sql)
RewriteLapRun ==
    /\ \E l \in laps : \E out \in TriState \ {l.is_pit_out_lap} :
          laps' = UpdateLap(laps, [lap_id |-> l.lap_id,
                                   lap_duration_ms |-> l.lap_duration_ms,
                                   is_pit_out_lap |-> out])
    /\ last_run' = [script |-> "upsert_laps", repeat |-> FALSE, before |-> {}]
    /\ UNCHANGED <<crVars, drivers, driver_alias, driver_id_by_session,
                   driver_numbers_by_season, results, pit_stops, race_control,
                   sessions, points_system, laps_raw, next_lap_id, exVars>>

\* main of backfill_lap_validity.py. last_run keeps whether the run before
\* it was a validity run over the same inputs and, if so, the laps it left.
UpdateLapValidityRun ==
    /\ laps' = update_lap_validity(laps, pit_stops,
                                   get_deleted_lap_ids(race_control))
    /\ last_run' = [script |-> "update_lap_validity",
                    repeat |-> last_run.script = "update_lap_validity",
                    before |-> IF last_run.script = "update_lap_validity"
                               THEN laps ELSE {}]
    /\ UNCHANGED <<crVars, drivers, driver_alias, driver_id_by_session,
                   driver_numbers_by_season, results, pit_stops, race_control,
                   sessions, points_system, laps_raw, next_lap_id, exVars>>

\* The statements of update_lap_validity in the order in which the one
\* transaction executes them (lines 110, 123, 138, 145, 154, 166)
ValidityStatement(i, table, pit_stop_table, deleted_lap_ids) ==
    CASE i = 1 -> SetPitInLaps(table, pit_stop_table)
      [] i = 2 -> ClearPitInLaps(table, pit_stop_table)
      [] i = 3 -> SetAllValid(table)
      [] i = 4 -> InvalidatePitOut(table)
      [] i = 5 -> InvalidatePitIn(table)
      [] i = 6 -> InvalidateDeleted(table, deleted_lap_ids)

\* silver.laps as the transaction sees it after its first k statements
RECURSIVE StatementsDone(_, _, _, _)
StatementsDone(k, table, pit_stop_table, deleted_lap_ids) ==
    IF k = 0 THEN table
    ELSE ValidityStatement(k,
                           StatementsDone(k - 1, table, pit_stop_table, deleted_lap_ids),
                           pit_stop_table, deleted_lap_ids)

\* A variant in which every statement is committed as it is executed
CommitEachStatement(committed, uncommitted) == uncommitted

\* conn.rollback() in the except branch, and the close of the connection
\* without commit when the process is interrupted: the table is what was
\* committed before the transaction
Rollback(committed, uncommitted) == committed

\* main of backfill_lap_validity.py when a statement of update_lap_validity
\* raises, or the process is interrupted, after k statements and before
\* conn.commit() at line 177. last_run keeps the table before the run and
\* the table the transaction had reached.
UpdateLapValidityFails ==
    /\ \E k \in 0..5 :
          \E uncommitted \in {StatementsDone(k, laps, pit_stops,
                                             get_deleted_lap_ids(race_control))} :
              /\ laps' = Rollback(laps, uncommitted)
              /\ last_run' = [script |-> "update_lap_validity_failed",
                              repeat |-> FALSE,
                              before |-> laps,
                              uncommitted |-> uncommitted]
    /\ UNCHANGED <<crVars, drivers, driver_alias, driver_id_by_session,
                   driver_numbers_by_season, results, pit_stops, race_control,
                   sessions, points_system, laps_raw, next_lap_id, exVars>>

NextValidity ==
    \/ UpsertPitStopsRun
    \/ UpsertRaceControlRun
    \/ RewriteLapRun
    \/ UpdateLapValidityRun
    \/ UpdateLapValidityFails

SpecValidity == InitValidity /\ [][NextValidity]_vars

\* C6: a second validity run over unchanged laps, pit stops and messages
\* leaves every lap with the is_pit_in_lap and is_valid of the first run.
C6_RerunSameFlags ==
    (last_run.script = "update_lap_validity" /\ last_run.repeat) =>
        \A l \in laps : \E b \in last_run.before :
            /\ b.lap_id = l.lap_id
            /\ b.is_pit_in_lap = l.is_pit_in_lap
            /\ b.is_valid = l.is_valid

\* A second run in a row, after which one lap is invalid as a pit-in lap
\* and another is valid.
C6_Witness ==
    /\ last_run.script = "update_lap_validity"
    /\ last_run.repeat
    /\ \E l \in laps : l.is_pit_in_lap /\ ~l.is_valid
    /\ \E l \in laps : l.is_valid

\* C7: after a validity run a lap is invalid exactly when it is a pit-out
\* lap, or a pit stop refers to it, or a message whose text holds "deleted"
\* (in any case) refers to it; and the three invalidations give this table
\* in each of their six orders.
C7_InvalidIffAnyCheck ==
    last_run.script = "update_lap_validity" =>
        /\ \A l \in laps :
              l.is_valid = ~(\/ l.is_pit_out_lap = "true"
                             \/ \E ps \in pit_stops : ps.lap_id = l.lap_id
                             \/ \E rc \in race_control :
                                   /\ rc.referenced_lap_id = l.lap_id
                                   /\ rc.message # NoStr
                                   /\ Contains(StrLower(rc.message),
                                               <<"d", "e", "l", "e", "t", "e", "d">>))
        /\ \A order \in Orderings({"pit_out", "pit_in", "deleted"}) :
              ApplyChecks(order, SetAllValid(laps),
                          get_deleted_lap_ids(race_control)) = laps

\* After a run: a lap that all three checks invalidate, a valid lap whose
\* is_pit_out_lap is NULL, and a message that refers to a lap without
\* holding "deleted".
C7_Witness ==
    /\ last_run.script = "update_lap_validity"
    /\ \E l \in laps :
          /\ ~l.is_valid
          /\ l.is_pit_out_lap = "true"
          /\ l.is_pit_in_lap
          /\ l.lap_id \in get_deleted_lap_ids(race_control)
    /\ \E l \in laps : l.is_valid /\ l.is_pit_out_lap = NULL
    /\ \E rc \in race_control :
          rc.referenced_lap_id # NullInt
            /\ ~Contains(StrLower(rc.message), <<"d", "e", "l", "e", "t", "e", "d">>)

(***************************************************************************)
(* Points Awarding Engine: upsert_points_awarding.py                       *)
(***************************************************************************)

\* get_completion_band(completed_laps, scheduled_laps); the ratio is
\* compared with 0.75, 0.50 and 0.25
get_completion_band(completed_laps, scheduled_laps) ==
    IF scheduled_laps = NullInt \/ scheduled_laps = 0 THEN "100_PCT"
    ELSE IF 4 * completed_laps >= 3 * scheduled_laps THEN "100_PCT"
    ELSE IF 2 * completed_laps >= scheduled_laps THEN "50_to_75_PCT"
    ELSE IF 4 * completed_laps >= scheduled_laps THEN "25_to_50_PCT"
    ELSE "0_to_25_PCT"

\* text ILIKE '%pattern%', pattern in upper case
IContains(text, pattern) == text # NoStr /\ Contains(StrUpper(text), pattern)

\* A variant of the green-flag query without the pit-exit exclusion
HasGreenFlagAnyText(table, session_id) ==
    \E rc \in table :
        /\ rc.session_id = session_id
        /\ rc.category = "Flag"
        /\ rc.flag = "GREEN"
        /\ rc.scope = "Track"

\* Lines 86-96: a track green flag that is not the pit exit opening (a
\* NULL message satisfies neither ILIKE nor NOT ILIKE)
HasTrackGreenFlag(table, session_id) ==
    \E rc \in table :
        /\ rc.session_id = session_id
        /\ rc.category = "Flag"
        /\ rc.flag = "GREEN"
        /\ rc.scope = "Track"
        /\ rc.message # NoStr
        /\ ~IContains(rc.message, <<"P", "I", "T", " ", "E", "X", "I", "T", " ", "O", "P", "E", "N">>)

\* Lines 98-106: DRS enabled
HasRaceDrsEnabled(table, session_id) ==
    \E rc \in table :
        /\ rc.session_id = session_id
        /\ rc.category = "Drs"
        /\ IContains(rc.message, <<"D", "R", "S", " ", "E", "N", "A", "B", "L", "E", "D">>)

\* has_minimum_race_laps(conn, session_id, completed_laps); lookup_ok is
\* FALSE when the race_control queries raise psycopg.Error (a failing
\* store, or a driver that rejects the unescaped % of the LIKE patterns in
\* a query that takes parameters)
has_minimum_race_laps(table, session_id, completed_laps, lookup_ok) ==
    IF completed_laps >= 3 THEN TRUE
    ELSE IF completed_laps < 2 THEN FALSE
    ELSE IF ~lookup_ok THEN TRUE
    ELSE HasTrackGreenFlag(table, session_id) \/ HasRaceDrsEnabled(table, session_id)

\* Lines 133-147: COALESCE(MAX(r.laps_completed), MAX(lap_number) of the
\* valid laps, 0)
CompletedLaps(session_id) ==
    LET completed == {r.laps_completed :
                         r \in {q \in results : /\ q.session_id = session_id
                                                /\ q.laps_completed # NullInt}}
        valid == {l.lap_number :
                     l \in {q \in laps : q.session_id = session_id /\ q.is_valid}}
    IN  IF completed # {} THEN MaxOf(completed)
        ELSE IF valid # {} THEN MaxOf(valid)
        ELSE 0

NoContext == [found |-> FALSE]

\* get_session_context(conn, session_id)
get_session_context(session_id, lookup_ok) ==
    IF ~\E s \in sessions : s.session_id = session_id THEN NoContext
    ELSE LET s == CHOOSE q \in sessions : q.session_id = session_id
             completed_laps == CompletedLaps(session_id)
         IN  [found |-> TRUE,
              season |-> s.season,
              points_awarding |-> s.points_awarding,
              completed_laps |-> completed_laps,
              scheduled_laps |-> s.scheduled_laps,
              completion_band |-> get_completion_band(completed_laps, s.scheduled_laps),
              has_minimum_race_laps |->
                  has_minimum_race_laps(race_control, session_id, completed_laps,
                                        lookup_ok)]

\* get_points_system_map: points_map.get(key, default); the key is
\* (season, race_type, completion_band, position, bonus)
PointsMapGet(points_map, key, default) ==
    LET hits == {rule \in points_map :
                    <<rule.season, rule.race_type, rule.completion_band,
                      rule.position, rule.bonus>> = key}
    IN  IF hits = {} THEN default ELSE (CHOOSE rule \in hits : TRUE).points

\* A variant of the first two checks that knows only the category none
ZeroesSessionNoneOnly(context) == context.points_awarding = "none"

\* Lines 251-286: the session gets 0 points throughout
ZeroesSession(context) ==
    \/ context.points_awarding = "none"
    \/ (context.completion_band = "0_to_25_PCT" /\ ~context.has_minimum_race_laps)

\* A variant of the bonus condition without the limit on the position
BonusAppliesAnyPosition(fastest_lap_bonus, result) ==
    fastest_lap_bonus # NullInt /\ result.fastest_lap = TRUE

\* Lines 326-330: the driver qualifies for the fastest lap bonus
BonusApplies(fastest_lap_bonus, result) ==
    /\ fastest_lap_bonus # NullInt
    /\ result.fastest_lap = TRUE
    /\ result.finish_position # NullInt
    /\ result.finish_position <= 10

\* A variant of the status check that knows only dnf
FinishedUnlessDnf(result) == result.status # "dnf"

\* Line 307: result['status'] == 'finished'
Finished(result) == result.status = "finished"

\* A variant that adds the base points to the points the result holds
TotalPointsAdded(result, context, points_map) ==
    IF ~Finished(result) \/ result.finish_position = NullInt THEN 0
    ELSE result.points
           + PointsMapGet(points_map,
                          <<context.season, context.points_awarding,
                            context.completion_band, result.finish_position, NULL>>, 0)

\* Lines 305-334: total_points of a result
TotalPoints(result, context, points_map) ==
    LET fastest_lap_bonus ==
            PointsMapGet(points_map,
                         <<context.season, context.points_awarding,
                           context.completion_band, NullInt, "fastest_lap">>, NullInt)
        base_points ==
            IF result.finish_position # NullInt
            THEN PointsMapGet(points_map,
                              <<context.season, context.points_awarding,
                                context.completion_band, result.finish_position, NULL>>, 0)
            ELSE 0
        bonus_points == IF BonusApplies(fastest_lap_bonus, result)
                        THEN fastest_lap_bonus ELSE 0
    IN  IF ~Finished(result) THEN 0 ELSE base_points + bonus_points

\* A variant that also clears the fastest lap flag of a result it zeroes
calculate_points_clearing_flag(table, session_id, context, points_map) ==
    {IF r.session_id # session_id THEN r
     ELSE IF ZeroesSession(context) THEN [r EXCEPT !.points = 0, !.fastest_lap = FALSE]
     ELSE [r EXCEPT !.points = TotalPoints(r, context, points_map)] : r \in table}

\* calculate_points_for_session: silver.results at the commit
calculate_points_for_session(table, session_id, context, points_map) ==
    {IF r.session_id # session_id THEN r
     ELSE IF ZeroesSession(context) THEN [r EXCEPT !.points = 0]
     ELSE [r EXCEPT !.points = TotalPoints(r, context, points_map)] : r \in table}

\* Lines 408-428 of main: the sessions one after another (each call
\* writes the rows of its own session only)
RECURSIVE ScoreSessions(_, _, _, _)
ScoreSessions(table, session_ids, points_map, lookup_ok) ==
    IF session_ids = {} THEN table
    ELSE LET session_id == CHOOSE id \in session_ids : TRUE
             context == get_session_context(session_id, lookup_ok)
         IN  ScoreSessions(IF context.found
                           THEN calculate_points_for_session(table, session_id,
                                                             context, points_map)
                           ELSE table,
                           session_ids \ {session_id}, points_map, lookup_ok)

(***************************************************************************)
(* SpecPoints: results are rewritten, flag messages arrive and the points  *)
(* run scores every session that has results                               *)
(***************************************************************************)
DrvA == <<"d", "r", "v", ":", "a">>
DrvB == <<"d", "r", "v", ":", "b">>

PointSessions ==
    {[session_id |-> "ses:1", openf1_session_key |-> "9001", season |-> 2024,
      points_awarding |-> "race", scheduled_laps |-> 50],
     [session_id |-> "ses:2", openf1_session_key |-> "9002", season |-> 2024,
      points_awarding |-> "none", scheduled_laps |-> NullInt]}

Rule(race_type, completion_band, position, bonus, points) ==
    [season |-> 2024, race_type |-> race_type, completion_band |-> completion_band,
     position |-> position, bonus |-> bonus, points |-> points]

\* silver.points_system without and with the fastest lap rules, and empty
BaseRules ==
    {Rule("race", "100_PCT", 1, NULL, 25),
     Rule("race", "100_PCT", 10, NULL, 2),
     Rule("race", "100_PCT", 11, NULL, 3),
     Rule("race", "0_to_25_PCT", 1, NULL, 6),
     Rule("race", "0_to_25_PCT", 10, NULL, 4),
     Rule("none", "100_PCT", 1, NULL, 5)}
BonusRules ==
    {Rule("race", "100_PCT", NullInt, "fastest_lap", 1),
     Rule("race", "0_to_25_PCT", NullInt, "fastest_lap", 1),
     Rule("none", "100_PCT", NullInt, "fastest_lap", 1)}
RuleSets == {{}, BaseRules, BaseRules \cup BonusRules}

\* Rows upsert_results can write for the first driver of the race
ResultOf(session_id, driver_id, finish_position, laps_completed, status, fastest_lap) ==
    [session_id |-> session_id, driver_id |-> driver_id,
     finish_position |-> finish_position, laps_completed |-> laps_completed,
     status |-> status, points |-> 0, fastest_lap |-> fastest_lap]
RaceResults ==
    {ResultOf("ses:1", DrvA, pos, completed, status, fastest) :
        pos \in {1, 10}, completed \in {NullInt, 10, 40},
        status \in {"finished", "dnf"}, fastest \in BOOLEAN}

\* Rows upsert_results can write for the second driver of the race:
\* classified 11th or without a position, or 10th on the road and not
\* started, disqualified or both (derive_status)
SecondResults ==
    {ResultOf("ses:1", DrvB, pos, NullInt, "finished", TRUE) : pos \in {11, NullInt}}
        \cup {ResultOf("ses:1", DrvB, 10, NullInt, derive_status(f[1], f[2], f[3]), TRUE) :
                 f \in {t \in [1..3 -> BOOLEAN] : t[2] \/ t[3]}}

\* The valid laps 1 and 2 and the invalid lap 3 of the race
RaceLaps ==
    {[NewLap(i, "false") EXCEPT !.driver_id = DrvA, !.is_valid = (i < 3)] : i \in 1..3}

\* Rows upsert_race_control can write for the race
FlagMessage(category, flag, scope, text) ==
    [session_id |-> "ses:1", category |-> category, flag |-> flag, scope |-> scope,
     message |-> text, referenced_lap_id |-> NullInt]
GateMessages ==
    {FlagMessage("Flag", "GREEN", "Track", <<"G", "R", "E", "E", "N", " ", "L", "I", "G", "H", "T", " ", "-", " ", "P", "i", "t", " ", "E", "x", "i", "t", " ", "O", "p", "e", "n">>),
     FlagMessage("Flag", "GREEN", "Track", <<"T", "R", "A", "C", "K", " ", "C", "L", "E", "A", "R">>),
     FlagMessage("Drs", NULL, NULL, <<"D", "r", "s", " ", "E", "n", "a", "b", "l", "e", "d">>)}

InitPoints ==
    /\ CrIdle
    /\ drivers = {DrvA, DrvB}
    /\ driver_alias = {}
    /\ driver_id_by_session = {}
    /\ driver_numbers_by_season = {}
    /\ \E first \in RaceResults : \E second \in SecondResults :
          results = {first, second,
                     ResultOf("ses:2", DrvA, 1, 40, "finished", TRUE)}
    /\ laps \in {{}, RaceLaps}
    /\ pit_stops = {}
    /\ race_control = {}
    /\ sessions = PointSessions
    /\ points_system \in RuleSets
    /\ laps_raw = {}
    /\ next_lap_id = 4
    /\ ExIdle
    /\ last_run = NoRun

\* upsert_results.py rewrites the result of the first driver of the race
\* (ON CONFLICT DO UPDATE, points kept)
RewriteResultRun ==
    /\ \E row \in RaceResults :
          /\ \E r \in results :
                /\ r.session_id = row.session_id
                /\ r.driver_id = row.driver_id
                /\ [r EXCEPT !.points = 0] # row
          /\ results' = UpsertResult(results, row)
    /\ last_run' = [script |-> "upsert_results"]
    /\ UNCHANGED <<crVars, drivers, driver_alias, driver_id_by_session,
                   driver_numbers_by_season, laps, pit_stops, race_control,
                   sessions, points_system, laps_raw, next_lap_id, exVars>>

\* upsert_race_control.py inserts a flag or DRS message of the race
UpsertFlagMessagesRun ==
    /\ \E row \in GateMessages \ race_control :
          race_control' = race_control \cup {row}
    /\ last_run' = [script |-> "upsert_race_control"]
    /\ UNCHANGED <<crVars, drivers, driver_alias, driver_id_by_session,
                   driver_numbers_by_season, results, laps, pit_stops,
                   sessions, points_system, laps_raw, next_lap_id, exVars>>

\* main of upsert_points_awarding.py; nothing is scored when
\* silver.points_system is empty. last_run keeps the sessions scored,
\* whether the race_control lookup of the gate worked and, when the run
\* before was a points run too, silver.results as that run left it and
\* whether the lookup worked in it.
AwardPointsRun ==
    \E lookup_ok \in BOOLEAN :
        /\ results' = IF points_system = {} THEN results
                      ELSE ScoreSessions(results, {r.session_id : r \in results},
                                         points_system, lookup_ok)
        /\ last_run' = [script |-> "upsert_points_awarding",
                        scored |-> IF points_system = {} THEN {}
                                   ELSE {r.session_id : r \in results}
                                            \cap {q.session_id : q \in sessions},
                        lookup_ok |-> lookup_ok,
                        repeat |-> last_run.script = "upsert_points_awarding",
                        before |-> IF last_run.script = "upsert_points_awarding"
                                   THEN results ELSE {},
                        before_ok |-> IF last_run.script = "upsert_points_awarding"
                                      THEN last_run.lookup_ok ELSE lookup_ok]
        /\ UNCHANGED <<crVars, drivers, driver_alias, driver_id_by_session,
                       driver_numbers_by_season, laps, pit_stops, race_control,
                       sessions, points_system, laps_raw, next_lap_id, exVars>>

NextPoints == RewriteResultRun \/ UpsertFlagMessagesRun \/ AwardPointsRun

SpecPoints == InitPoints /\ [][NextPoints]_vars

\* ---- what the claims say of a session, read off the tables ----
JustScored(session_id) ==
    last_run.script = "upsert_points_awarding" /\ session_id \in last_run.scored

\* A track green flag message other than the pit exit opening, or a
\* message that DRS is enabled
GreenFlagOrDrsMessage(session_id) ==
    \E rc \in race_control :
        /\ rc.session_id = session_id
        /\ \/ /\ rc.category = "Flag" /\ rc.flag = "GREEN" /\ rc.scope = "Track"
              /\ ~Contains(StrLower(rc.message), <<"p", "i", "t", " ", "e", "x", "i", "t", " ", "o", "p", "e", "n">>)
           \/ /\ rc.category = "Drs"
              /\ Contains(StrLower(rc.message), <<"d", "r", "s", " ", "e", "n", "a", "b", "l", "e", "d">>)

AllPointsZero(session_id) ==
    \A r \in results : r.session_id = session_id => r.points = 0

C9_NoneOrGatedScoresZero ==
    \A s \in sessions :
        (/\ JustScored(s.session_id)
         /\ \/ s.points_awarding = "none"
            \/ /\ get_completion_band(CompletedLaps(s.session_id), s.scheduled_laps)
                     = "0_to_25_PCT"
               /\ ~has_minimum_race_laps(race_control, s.session_id,
                                         CompletedLaps(s.session_id), last_run.lookup_ok))
        => AllPointsZero(s.session_id)

\* Both cases in one run: the session of category none has a rule for its
\* winner, and the race is in the lowest band with the gate false and has
\* a finisher in first place holding the fastest lap.
C9_Witness ==
    /\ JustScored("ses:1")
    /\ JustScored("ses:2")
    /\ \E rule \in points_system : rule.race_type = "none" /\ rule.bonus = "fastest_lap"
    /\ get_completion_band(CompletedLaps("ses:1"), 50) = "0_to_25_PCT"
    /\ ~has_minimum_race_laps(race_control, "ses:1", CompletedLaps("ses:1"),
                              last_run.lookup_ok)
    /\ \E r \in results :
          /\ r.session_id = "ses:1"
          /\ r.status = "finished"
          /\ r.finish_position = 1
          /\ r.fastest_lap

\* The points of the rule of a key, 0 when there is none
RulePoints(s, position, bonus) ==
    LET rules == {rule \in points_system :
                     /\ rule.season = s.season
                     /\ rule.race_type = s.points_awarding
                     /\ rule.completion_band =
                            get_completion_band(CompletedLaps(s.session_id),
                                                s.scheduled_laps)
                     /\ rule.position = position
                     /\ rule.bonus = bonus}
    IN  IF rules = {} THEN 0 ELSE (CHOOSE rule \in rules : TRUE).points

\* C10: in a session scored by the rules, a finished result has the base
\* points of its position plus the fastest lap bonus exactly when a
\* fastest_lap rule exists for (season, category, band), its fastest_lap
\* flag is true and its finish position is at most 10; in 11th place or
\* without a position it has the base points only.
C10_BonusIffTopTen ==
    \A s \in sessions :
        (/\ JustScored(s.session_id)
         /\ s.points_awarding # "none"
         /\ ~(/\ get_completion_band(CompletedLaps(s.session_id), s.scheduled_laps)
                    = "0_to_25_PCT"
              /\ ~has_minimum_race_laps(race_control, s.session_id,
                                        CompletedLaps(s.session_id), last_run.lookup_ok)))
        => \A r \in results :
              (r.session_id = s.session_id /\ r.status = "finished") =>
                  LET base == IF r.finish_position = NullInt THEN 0
                              ELSE RulePoints(s, r.finish_position, NULL)
                      rule_exists ==
                          \E rule \in points_system :
                              /\ rule.season = s.season
                              /\ rule.race_type = s.points_awarding
                              /\ rule.completion_band =
                                     get_completion_band(CompletedLaps(s.session_id),
                                                         s.scheduled_laps)
                              /\ rule.position = NullInt
                              /\ rule.bonus = "fastest_lap"
                      gets_bonus == /\ rule_exists
                                    /\ r.fastest_lap
                                    /\ r.finish_position # NullInt
                                    /\ r.finish_position <= 10
                  IN  r.points = base + (IF gets_bonus
                                         THEN RulePoints(s, NullInt, "fastest_lap")
                                         ELSE 0)

\* A fully run race with a fastest_lap rule: the driver in 10th place with
\* the flag has base + bonus, the driver in 11th place with the flag has
\* the base of 11th place only.
C10_Witness ==
    /\ JustScored("ses:1")
    /\ CompletedLaps("ses:1") = 40
    /\ \E r \in results :
          /\ r.session_id = "ses:1" /\ r.status = "finished"
          /\ r.finish_position = 10 /\ r.fastest_lap /\ r.points = 3
    /\ \E r \in results :
          /\ r.session_id = "ses:1" /\ r.status = "finished"
          /\ r.finish_position = 11 /\ r.fastest_lap /\ r.points = 3

\* C11: after a session is scored, each of its results whose status is
\* not finished (dnf, dns, dsq, nc) has 0 points, also with a rule for its
\* finish position and the fastest lap flag.
C11_NotFinishedScoresZero ==
    \A s \in sessions :
        JustScored(s.session_id) =>
            \A r \in results :
                (r.session_id = s.session_id /\ r.status # "finished") => r.points = 0

\* A fully run race scored by rules with a bonus: 10th place with the
\* fastest lap flag, once dnf and once dns, dsq or nc, and a rule that
\* gives 10th place points.
C11_Witness ==
    /\ JustScored("ses:1")
    /\ CompletedLaps("ses:1") = 40
    /\ BonusRules \subseteq points_system
    /\ \E rule \in points_system :
          /\ rule.race_type = "race" /\ rule.completion_band = "100_PCT"
          /\ rule.position = 10 /\ rule.points > 0
    /\ \E r \in results :
          /\ r.session_id = "ses:1" /\ r.status = "dnf"
          /\ r.finish_position = 10 /\ r.fastest_lap /\ r.points = 0
    /\ \E r \in results :
          /\ r.session_id = "ses:1" /\ r.status \in {"dns", "dsq", "nc"}
          /\ r.finish_position = 10 /\ r.fastest_lap /\ r.points = 0

SansPoints(r) == [r EXCEPT !.points = 0]

\* C14: a points run changes nothing but the points of results: the
\* ruleset, sessions, laps and race control messages stay as they are, and
\* so do the rows of silver.results apart from their points.
C14_OnlyPointsWritten ==
    [][last_run'.script = "upsert_points_awarding" =>
          /\ points_system' = points_system
          /\ sessions' = sessions
          /\ laps' = laps
          /\ race_control' = race_control
          /\ pit_stops' = pit_stops
          /\ {SansPoints(r) : r \in results'} = {SansPoints(r) : r \in results}
          /\ Cardinality(results') = Cardinality(results)]_vars

\* A run has written points above 0 in the race and has zeroed a session
\* that holds a result with the fastest lap flag.
C14_Witness ==
    /\ JustScored("ses:1")
    /\ JustScored("ses:2")
    /\ \E r \in results : r.session_id = "ses:1" /\ r.points > 0
    /\ \E r \in results : r.session_id = "ses:2" /\ r.fastest_lap /\ r.points = 0

\* C15: a run of the results upsert leaves the points of every result
\* that existed before it, and points change in a points run only.
C15_UpsertKeepsPoints ==
    [][/\ last_run'.script = "upsert_results" =>
              \A r \in results : \E q \in results' :
                  /\ q.session_id = r.session_id
                  /\ q.driver_id = r.driver_id
                  /\ q.points = r.points
       /\ (\E r \in results : \E q \in results' :
                  /\ q.session_id = r.session_id
                  /\ q.driver_id = r.driver_id
                  /\ q.points # r.points)
              => last_run'.script = "upsert_points_awarding"]_vars

\* The results upsert has rewritten a result of the scored race that
\* holds points; its status is no longer finished.
C15_Witness ==
    /\ last_run.script = "upsert_results"
    /\ \E r \in results :
          /\ r.session_id = "ses:1" /\ r.driver_id = DrvA
          /\ r.status = "dnf" /\ r.points > 0

(***************************************************************************)
(* SpecEntity: the Entity Resolver in upsert_driver_numbers_by_season.py   *)
(* and upsert_drivers.py over alias tables and raw names                   *)
(***************************************************************************)
DrvX == <<"d", "r", "v", ":", "x">>
DrvGhost == <<"d", "r", "v", ":", "g", "h", "o", "s", "t">>

\* silver.driver_alias rows: the raw name as it is, last name first, in
\* lower case and in upper case, and an alias of a driver who is not in
\* silver.drivers
EntityAlias ==
    {[alias |-> <<"M", "a", " ", "V", "e">>, driver_id |-> DrvX],
     [alias |-> <<"V", "e", " ", "M", "a">>, driver_id |-> DrvX],
     [alias |-> <<"m", "a", " ", "v", "e">>, driver_id |-> DrvX],
     [alias |-> <<"M", "A", " ", "V", "E">>, driver_id |-> DrvX],
     [alias |-> <<"L", "i", " ", "N", "o">>, driver_id |-> DrvGhost]}

\* bronze.drivers_raw joined with sessions and meetings
EntityRecord ==
    {[first_name |-> <<"M", "a">>, last_name |-> <<"V", "e">>,
      driver_number |-> n, season |-> 2024, session_type |-> "race"] : n \in {1, 33}}
    \cup {[first_name |-> <<"L", "i">>, last_name |-> <<"N", "o">>,
           driver_number |-> 4, season |-> 2024, session_type |-> "race"]}

EntityDrivers ==
    {DrvX, generate_driver_id(<<"M", "a">>, <<"V", "e">>),
     generate_driver_id(<<"L", "i">>, <<"N", "o">>)}

InitEntity ==
    /\ CrIdle
    /\ drivers \in SUBSET EntityDrivers
    /\ driver_alias \in SUBSET EntityAlias
    /\ driver_id_by_session = {}
    /\ driver_numbers_by_season = {}
    /\ results = {}
    /\ laps = {}
    /\ pit_stops = {}
    /\ race_control = {}
    /\ sessions = {}
    /\ points_system = {}
    /\ laps_raw = {}
    /\ next_lap_id = 1
    /\ ExIdle
    /\ last_run = NoRun

\* The driver_id each record of a run was given (alias, else generated)
ResolvedIds(records, alias_map) ==
    [i \in DOMAIN records |-> RecordDriverId(records[i], alias_map)]

\* SELECT 1 FROM silver.drivers WHERE driver_id = %s
DriverExists(driver_id, driver_table) == driver_id \in driver_table

\* upsert_drivers(conn, drivers, alias_map, country_alias_map): the ids of
\* silver.drivers after the commit (ON CONFLICT (driver_id) DO UPDATE)
upsert_drivers(driver_table, records, alias_map) ==
    driver_table \cup
        {id \in Range(ResolvedIds(records, alias_map)) :
            id # NoStr /\ DriverExists(id, driver_table)}

\* main of upsert_driver_numbers_by_season.py over the raw names; last_run
\* keeps the records, the ids they were given and the rows written
AttachCarNumbersRun ==
    \E records \in SeqsUpTo(EntityRecord, MaxBatch) :
        \E after \in {upsert_driver_numbers(driver_numbers_by_season, records,
                                            driver_alias, drivers)} :
            /\ Distinct(records)
            /\ driver_numbers_by_season' = after
            /\ last_run' = [script |-> "upsert_driver_numbers",
                            records |-> records,
                            resolved |-> ResolvedIds(records, driver_alias),
                            written |-> after \ driver_numbers_by_season,
                            drivers_before |-> drivers]
            /\ UNCHANGED <<crVars, drivers, driver_alias, driver_id_by_session,
                           results, laps, pit_stops, race_control,
                           sessions, points_system, laps_raw, next_lap_id, exVars>>

\* skipped of upsert_drivers over the driver_id given to each record: the
\* records without driver_id (318-321) and the records whose driver_id is
\* not in silver.drivers (324-327)
SkippedDrivers(driver_table, resolved) ==
    Cardinality({i \in DOMAIN resolved :
                    resolved[i] = NoStr \/ ~DriverExists(resolved[i], driver_table)})

\* The logger.warning calls of upsert_drivers over the fields of the
\* records (319, 359), by kind
DriverWarnings(driver_table, resolved) ==
    {"missing_required_fields" : i \in {j \in DOMAIN resolved : resolved[j] = NoStr}}
    \cup (IF SkippedDrivers(driver_table, resolved) = Len(resolved)
          THEN {"no_valid_drivers"} ELSE {})

\* The raw names of a run of upsert_drivers: two of them differ and
\* sanitize to one id
DriverRecords ==
    {r \in EntityRecord : r.driver_number # 33}
    \cup {[first_name |-> <<"M", ".", "a">>, last_name |-> <<"V", "e">>,
           driver_number |-> 1, season |-> 2024, session_type |-> "race"]}

\* main of upsert_drivers.py over the raw names
UpsertDriversRun ==
    \E records \in {r \in SeqsUpTo(DriverRecords, MaxBatch) : Distinct(r)} :
        \E resolved \in {ResolvedIds(records, driver_alias)} :
            /\ drivers' = upsert_drivers(drivers, records, driver_alias)
            /\ last_run' = [script |-> "upsert_drivers",
                            records |-> records,
                            resolved |-> resolved,
                            written |-> {},
                            drivers_before |-> drivers,
                            skipped |-> SkippedDrivers(drivers, resolved),
                            warnings |-> DriverWarnings(drivers, resolved)]
            /\ UNCHANGED <<crVars, driver_alias, driver_id_by_session,
                           driver_numbers_by_season, results, laps, pit_stops,
                           race_control, sessions, points_system, laps_raw,
                           next_lap_id, exVars>>

NextEntity == AttachCarNumbersRun \/ UpsertDriversRun

SpecEntity == InitEntity /\ [][NextEntity]_vars

ResolverRan == last_run.script \in {"upsert_driver_numbers", "upsert_drivers"}

\* "First Last" of a raw record
FirstLast(record) == record.first_name \o <<" ">> \o record.last_name

\* C12: a record whose "First Last" is an alias of driver X is given X,
\* and a record is given an id that is no alias target only when none of
\* the resolver's candidates is an alias.
C12_AliasBeforeSynthesized ==
    ResolverRan =>
        \A i \in DOMAIN last_run.records :
            /\ \A a \in driver_alias :
                  a.alias = FirstLast(last_run.records[i])
                      => last_run.resolved[i] = a.driver_id
            /\ (\E a \in driver_alias :
                    \E k \in 1..4 :
                        a.alias = FullNameVariants(last_run.records[i].first_name,
                                                   last_run.records[i].last_name)[k])
                  => \E a \in driver_alias : last_run.resolved[i] = a.driver_id

\* The car-number flow met the alias "Ma Ve" of driver X while the
\* synthesized id of Ma Ve is a driver too: the row went to X.
C12_Witness ==
    /\ last_run.script = "upsert_driver_numbers"
    /\ \E i \in DOMAIN last_run.records :
          /\ \E a \in driver_alias : a.alias = FirstLast(last_run.records[i])
          /\ last_run.resolved[i] = DrvX
          /\ generate_driver_id(last_run.records[i].first_name,
                                last_run.records[i].last_name) \in drivers
    /\ \E row \in driver_numbers_by_season : row.driver_id = DrvX
    /\ ~\E row \in driver_numbers_by_season : row.driver_id # DrvX

\* C16: a run of the car-number flow leaves silver.drivers as it was and
\* writes rows of silver.driver_numbers_by_season only for driver ids that
\* are in silver.drivers.
C16_NoDriverFabricated ==
    last_run.script = "upsert_driver_numbers" =>
        /\ drivers = last_run.drivers_before
        /\ \A row \in last_run.written : row.driver_id \in drivers
        /\ \A row \in driver_numbers_by_season : row.driver_id \in drivers

\* A batch of two drivers: one whose id (aliased to a driver who does not
\* exist, or synthesized) is not in silver.drivers and got no row, and one
\* who got a row.
C16_Witness ==
    /\ last_run.script = "upsert_driver_numbers"
    /\ \E i \in DOMAIN last_run.records :
          /\ last_run.resolved[i] \notin drivers
          /\ ~\E row \in driver_numbers_by_season : row.driver_id = last_run.resolved[i]
    /\ \E i \in DOMAIN last_run.records :
          /\ last_run.resolved[i] = DrvGhost
    /\ last_run.written # {}

\* C17: a record is given the driver of an alias that equals its
\* "First Last" or its "Last First" up to letter case.
C17_CaseAndOrderInsensitive ==
    ResolverRan =>
        \A i \in DOMAIN last_run.records :
            \A a \in driver_alias :
                StrLower(a.alias)
                    \in {StrLower(FirstLast(last_run.records[i])),
                         StrLower(last_run.records[i].last_name \o <<" ">>
                                    \o last_run.records[i].first_name)}
                    => last_run.resolved[i] = a.driver_id

(***************************************************************************)
(* Source-level mode: upsert_car_telemetry.py                              *)
(***************************************************************************)

\* parse_int of upsert_car_telemetry.py: int(value), None when blank or invalid
parse_int_telemetry(value) ==
    IF value = NoStr \/ StrStrip(value) = <<>> THEN NullInt
    ELSE IF IsDigits(StrStrip(value)) THEN DigitsValue(StrStrip(value))
    ELSE NullInt

\* parse_timestamp of upsert_car_telemetry.py: fromisoformat with Z replaced
parse_timestamp_telemetry(timestamp_str) ==
    IF timestamp_str = NoStr THEN NullInt ELSE parse_timestamp(timestamp_str)

\* session_id_map.get(openf1_session_key), None as ""
SessionIdMapGet(session_key) ==
    LET hits == {q \in sessions : q.openf1_session_key = session_key}
    IN  IF hits = {} THEN "" ELSE (CHOOSE q \in hits : TRUE).session_id

\* A table with duplicate rows: one more copy of a row, and the number of
\* copies of the rows of a set
AddCopy(table, row) ==
    IF row \in DOMAIN table THEN [table EXCEPT ![row] = @ + 1]
    ELSE table @@ (row :> 1)
RECURSIVE AddCopies(_, _)
AddCopies(table, rows) ==
    IF rows = {} THEN table
    ELSE LET row == CHOOSE r \in rows : TRUE
         IN  AddCopies(AddCopy(table, row), rows \ {row})
RECURSIVE CopiesOf(_, _)
CopiesOf(table, rows) ==
    IF rows = {} THEN 0
    ELSE LET row == CHOOSE r \in rows : TRUE
         IN  table[row] + CopiesOf(table, rows \ {row})

\* COUNT(*) of bronze.car_telemetry_raw and of silver.car_telemetry joined
\* with silver.sessions, for a session key
BronzeCount(raw, session_key) ==
    Cardinality({r \in raw : r.openf1_session_key = session_key})
SilverCount(table, session_key) ==
    CopiesOf(table, {row \in DOMAIN table :
                        \E q \in sessions : /\ q.session_id = row.session_id
                                            /\ q.openf1_session_key = session_key})

\* get_unprocessed_sessions: the bronze session keys without a row in
\* silver, or with more rows in bronze than in silver
get_unprocessed_sessions(raw, table) ==
    {key \in {r.openf1_session_key : r \in raw} \ {NULL} :
        \/ SilverCount(table, key) = 0
        \/ BronzeCount(raw, key) > SilverCount(table, key)}

\* Lines 217-262 of process_sessions: the row a raw record becomes, and
\* whether it is skipped
TelemetryDriverId(r) ==
    IF parse_int_telemetry(r.driver_number) = NullInt THEN NoStr
    ELSE DriverIdMapGet(r.openf1_session_key, parse_int_telemetry(r.driver_number))
TelemetrySkipped(r) ==
    \/ SessionIdMapGet(r.openf1_session_key) = ""
    \/ TelemetryDriverId(r) = NoStr
    \/ parse_timestamp_telemetry(r.date) = NullInt
TelemetryRow(r) ==
    [session_id |-> SessionIdMapGet(r.openf1_session_key),
     driver_id |-> TelemetryDriverId(r),
     date |-> parse_timestamp_telemetry(r.date),
     speed_kph |-> parse_int_telemetry(r.speed_kph)]

\* The rows process_sessions fetches for a session key
TelemetryFetched(raw, session_key) ==
    {r \in raw : /\ r.openf1_session_key = session_key
                 /\ r.driver_number # NoStr
                 /\ r.date # NoStr}

\* The rows COPY appends for a session key: one per raw record kept, so
\* two records that convert to the same row give two copies
RECURSIVE CopyRows(_, _)
CopyRows(table, records) ==
    IF records = {} THEN table
    ELSE LET r == CHOOSE x \in records : TRUE
         IN  CopyRows(AddCopy(table, TelemetryRow(r)), records \ {r})

\* UNIQUE (session_id, driver_id, date) holds of a table
TelemetryKeysUnique(table) ==
    \A a, b \in DOMAIN table :
        /\ table[a] = 1
        /\ (a.session_id = b.session_id /\ a.driver_id = b.driver_id /\ a.date = b.date)
              => a = b

\* process_sessions(conn, [session_key], session_id_map, driver_id_map):
\* silver.car_telemetry after the commit, or as it was when the COPY
\* violates the unique constraint (rollback, and main goes on)
process_sessions(table, raw, session_key, unique) ==
    LET copied == CopyRows(table, {r \in TelemetryFetched(raw, session_key) :
                                      ~TelemetrySkipped(r)})
    IN  IF unique /\ ~TelemetryKeysUnique(copied) THEN table ELSE copied

\* Lines 349-365 of main: one session after another
RECURSIVE ProcessAll(_, _, _, _)
ProcessAll(table, raw, session_keys, unique) ==
    IF session_keys = {} THEN table
    ELSE LET key == CHOOSE k \in session_keys : TRUE
         IN  ProcessAll(process_sessions(table, raw, key, unique), raw,
                        session_keys \ {key}, unique)

\* deduplicate_table of dedupe_and_add_constraints.py: the tables that
\* keep one row (the oldest) of every (session_id, driver_id, date)
Deduplicated(table) ==
    {[row \in kept |-> 1] :
        kept \in {k \in SUBSET DOMAIN table :
                    \A a \in DOMAIN table :
                        Cardinality({b \in k : /\ b.session_id = a.session_id
                                               /\ b.driver_id = a.driver_id
                                               /\ b.date = a.date}) = 1}}

(***************************************************************************)
(* SpecTelemetry: telemetry arrives in bronze.car_telemetry_raw and        *)
(* upsert_car_telemetry runs                                               *)
(***************************************************************************)
RawTelemetry(session_key, driver_number, date, speed_kph) ==
    [openf1_session_key |-> session_key, driver_number |-> driver_number,
     date |-> date, speed_kph |-> speed_kph]

\* What the car_data endpoint can return for a session and a car: car 44
\* of 9001 twice and once with a date that does not parse, car 63 of 9001
\* (no driver known), car 44 of 9002, and car 44 of 9003, a session that
\* is not in silver.sessions
RawTelemetryOf(session_key, driver_number) ==
    IF session_key = "9001" /\ driver_number = <<"4", "4">>
    THEN {RawTelemetry("9001", <<"4", "4">>, <<"7", "Z">>, <<"3", "0", "0">>),
          RawTelemetry("9001", <<"4", "4">>, <<"8", "Z">>, <<"3", "1", "0">>),
          RawTelemetry("9001", <<"4", "4">>, <<"9">>, <<"3", "2", "0">>)}
    ELSE {RawTelemetry(session_key, driver_number, <<"7", "Z">>, <<"3", "0", "0">>)}
TelemetryCars ==
    {<<"9001", <<"4", "4">>>>, <<"9001", <<"6", "3">>>>,
     <<"9002", <<"4", "4">>>>, <<"9003", <<"4", "4">>>>}

InitTelemetry ==
    /\ CrIdle
    /\ drivers = {DrvMaxV}
    /\ driver_alias = {}
    /\ driver_id_by_session =
          {[openf1_session_key |-> key, driver_number |-> 44, driver_id |-> DrvMaxV] :
              key \in {"9001", "9002"}}
    /\ driver_numbers_by_season = {}
    /\ results = {}
    /\ laps = {}
    /\ pit_stops = {}
    /\ race_control = {}
    /\ sessions = LapSessions
    /\ points_system = {}
    /\ laps_raw = {}
    /\ next_lap_id = 1
    /\ ExIdle
    /\ last_run = NoRun

\* main of ingest_car_telemetry.py: for a session and car without a row in
\* bronze.car_telemetry_raw, the records the endpoint returns are inserted
IngestCarTelemetryRun ==
    /\ \E car \in TelemetryCars :
          /\ ~\E r \in car_telemetry_raw :
                r.openf1_session_key = car[1] /\ r.driver_number = car[2]
          /\ \E fetched \in SUBSET RawTelemetryOf(car[1], car[2]) :
                /\ fetched # {}
                /\ Cardinality(fetched) <= MaxRaw
                /\ car_telemetry_raw' = car_telemetry_raw \cup fetched
    /\ last_run' = [script |-> "ingest_car_telemetry"]
    /\ UNCHANGED <<crVars, dbVars, pit_stops_raw, car_telemetry, telemetry_unique, laps_runs,
                   pipeline>>

\* main of upsert_car_telemetry.py. last_run keeps the sessions the run
\* processed and, when the run before it was a telemetry run too, the
\* table that run left.
UpsertCarTelemetryRun ==
    \E unprocessed_sessions \in {get_unprocessed_sessions(car_telemetry_raw, car_telemetry)} :
        /\ car_telemetry' = ProcessAll(car_telemetry, car_telemetry_raw,
                                       unprocessed_sessions, telemetry_unique)
        /\ last_run' = [script |-> "upsert_car_telemetry",
                        processed |-> unprocessed_sessions,
                        repeat |-> last_run.script = "upsert_car_telemetry",
                        before |-> IF last_run.script = "upsert_car_telemetry"
                                   THEN car_telemetry ELSE <<>>]
        /\ UNCHANGED <<crVars, dbVars, pit_stops_raw, car_telemetry_raw,
                       telemetry_unique, laps_runs, pipeline>>

\* main of dedupe_and_add_constraints.py, for silver.car_telemetry
DedupeAndAddConstraintsRun ==
    /\ ~telemetry_unique
    /\ car_telemetry' \in Deduplicated(car_telemetry)
    /\ telemetry_unique' = TRUE
    /\ last_run' = [script |-> "dedupe_and_add_constraints"]
    /\ UNCHANGED <<crVars, dbVars, pit_stops_raw, car_telemetry_raw, laps_runs, pipeline>>

NextTelemetry ==
    IngestCarTelemetryRun \/ UpsertCarTelemetryRun \/ DedupeAndAddConstraintsRun

SpecTelemetry == InitTelemetry /\ [][NextTelemetry]_vars

\* C18: a telemetry run that directly follows a telemetry run over the
\* same raw rows appends nothing: silver.car_telemetry is as the first run
\* left it, also for sessions some of whose raw records were dropped.
C18_RerunAppendsNothing ==
    (last_run.script = "upsert_car_telemetry" /\ last_run.repeat)
        => car_telemetry = last_run.before

(***************************************************************************)
(* Pit stops: upsert_pit_stops.py                                          *)
(***************************************************************************)

\* parse_int of upsert_pit_stops.py: int(value), None when blank or invalid
parse_int_pit_stops(value) ==
    IF value = NoStr \/ StrStrip(value) = <<>> THEN NullInt
    ELSE IF IsDigits(StrStrip(value)) THEN DigitsValue(StrStrip(value))
    ELSE NullInt

\* parse_timestamp of upsert_pit_stops.py: fromisoformat with Z replaced
parse_timestamp_pit_stops(timestamp_str) ==
    IF timestamp_str = NoStr THEN NullInt ELSE parse_timestamp(timestamp_str)

\* get_lap_id_map: the dicts (session_id, driver_id, lap_number) -> lap_id
\* the SELECT over silver.laps can give; of two laps with one key the row
\* fetched last stays
LapIdKey(l) == <<l.session_id, l.driver_id, l.lap_number>>
get_lap_id_map(lap_table) ==
    {lap_id_map \in [{LapIdKey(l) : l \in lap_table} -> {l.lap_id : l \in lap_table}] :
        \A k \in DOMAIN lap_id_map :
            \E l \in lap_table : LapIdKey(l) = k /\ l.lap_id = lap_id_map[k]}

\* get_pit_stops_from_bronze: SELECT DISTINCT of bronze.pit_stops_raw
\* INNER JOIN silver.sessions, the rows without a NULL among session key,
\* driver number, date and lap number
PitStopsFromBronze(raw) ==
    {[openf1_session_key |-> t[1].openf1_session_key,
      driver_number |-> t[1].driver_number,
      date |-> t[1].date,
      lap_number |-> t[1].lap_number,
      pit_duration_s |-> t[1].pit_duration_s,
      session_id |-> t[2].session_id] :
        t \in {u \in raw \X sessions :
                  /\ u[1].openf1_session_key = u[2].openf1_session_key
                  /\ u[1].openf1_session_key # NULL
                  /\ u[1].driver_number # NoStr
                  /\ u[1].date # NoStr
                  /\ u[1].lap_number # NoStr}}

\* ORDER BY psr.date: the lists the query can return, rows of equal text
\* in any order
RECURSIVE get_pit_stops_from_bronze(_)
get_pit_stops_from_bronze(rows) ==
    IF rows = {} THEN {<<>>}
    ELSE LET earliest == {r \in rows : ~\E q \in rows : TextLess(q.date, r.date)}
         IN  UNION {{<<r>> \o rest : rest \in get_pit_stops_from_bronze(rows \ {r})} :
                       r \in earliest}

\* Lines 253-286 of upsert_pit_stops: the driver of a record, whether the
\* record is skipped, and the values it is written with
PitStopDriverId(record) ==
    IF parse_int_pit_stops(record.driver_number) = NullInt THEN NoStr
    ELSE DriverIdMapGet(record.openf1_session_key,
                        parse_int_pit_stops(record.driver_number))
PitStopLapKey(record) ==
    <<record.session_id, PitStopDriverId(record), parse_int_pit_stops(record.lap_number)>>
PitStopSkipped(record, lap_id_map) ==
    \/ parse_timestamp_pit_stops(record.date) = NullInt
    \/ parse_int_pit_stops(record.lap_number) = NullInt
    \/ parse_int_pit_stops(record.driver_number) = NullInt
    \/ PitStopDriverId(record) = NoStr
    \/ PitStopLapKey(record) \notin DOMAIN lap_id_map
PitStopValues(record, lap_id_map) ==
    [session_id |-> record.session_id,
     driver_id |-> PitStopDriverId(record),
     date |-> parse_timestamp_pit_stops(record.date),
     lap_number |-> parse_int_pit_stops(record.lap_number),
     lap_id |-> lap_id_map[PitStopLapKey(record)],
     pit_duration_ms |-> convert_seconds_to_ms(record.pit_duration_s)]

\* Lines 288-294: dedup_key
PitStopKey(r) == <<r.session_id, r.driver_id, r.date, r.lap_number>>

\* Lines 237-245: the dicts existing_records can be; of two rows with one
\* key the row fetched last stays
ExistingPitStops(table) ==
    {e \in [{PitStopKey(r) : r \in table} -> {r.pit_stop_id : r \in table}] :
        \A k \in DOMAIN e : \E r \in table : PitStopKey(r) = k /\ r.pit_stop_id = e[k]}

\* The next value of the pit_stop_id sequence; no row is ever deleted and
\* no insert is rolled back here
NextPitStopId(table) ==
    IF table = {} THEN 1 ELSE 1 + MaxOf({r.pit_stop_id : r \in table})

\* insert_sql on the records of a list in order
RECURSIVE InsertPitStops(_, _)
InsertPitStops(table, inserts_data) ==
    IF inserts_data = <<>> THEN table
    ELSE InsertPitStops(
             table \cup {[pit_stop_id |-> NextPitStopId(table),
                          session_id |-> Head(inserts_data).session_id,
                          driver_id |-> Head(inserts_data).driver_id,
                          date |-> Head(inserts_data).date,
                          lap_number |-> Head(inserts_data).lap_number,
                          lap_id |-> Head(inserts_data).lap_id,
                          pit_duration_ms |-> Head(inserts_data).pit_duration_ms]},
             Tail(inserts_data))

\* update_sql: pit_duration_ms and lap_id of the row WHERE pit_stop_id = ...
UpdatePitStop(table, update) ==
    {IF r.pit_stop_id = update.pit_stop_id
     THEN [r EXCEPT !.pit_duration_ms = update.pit_duration_ms,
                    !.lap_id = update.lap_id]
     ELSE r : r \in table}

\* upsert_pit_stops(conn, records, driver_id_map, lap_id_map): the table
\* after the commit and the three counters of the run
upsert_pit_stops(table, records, lap_id_map, existing_records) ==
    LET kept == SelectSeq(records, LAMBDA r : ~PitStopSkipped(r, lap_id_map))
        values == [i \in DOMAIN kept |-> PitStopValues(kept[i], lap_id_map)]
        inserts_data ==
            SelectSeq(values, LAMBDA v : PitStopKey(v) \notin DOMAIN existing_records)
        found == SelectSeq(values, LAMBDA v : PitStopKey(v) \in DOMAIN existing_records)
        updates_data ==
            [i \in DOMAIN found |->
                [pit_stop_id |-> existing_records[PitStopKey(found[i])],
                 pit_duration_ms |-> found[i].pit_duration_ms,
                 lap_id |-> found[i].lap_id]]
    IN  [table |-> ExecuteMany(UpdatePitStop, InsertPitStops(table, inserts_data),
                               updates_data),
         inserted_count |-> Len(inserts_data),
         updated_count |-> Len(updates_data),
         skipped_count |-> Len(records) - Len(kept)]

(***************************************************************************)
(* SpecPitStops: upsert_pit_stops runs over bronze.pit_stops_raw           *)
(***************************************************************************)
RawPitStop(session_key, driver_number, date, lap_number, pit_duration_s) ==
    [openf1_session_key |-> session_key, driver_number |-> driver_number,
     date |-> date, lap_number |-> lap_number, pit_duration_s |-> pit_duration_s]

\* Rows bronze.pit_stops_raw can hold: a stop of car 44 on lap 1 of 9001
\* with two durations, a stop on lap 2, a stop of a car without a driver,
\* a stop on a lap that is not in silver.laps, a stop whose date does not
\* parse, a stop without a lap number, and a stop of 9003, a session that
\* is not in silver.sessions
RawPitStops ==
    {RawPitStop("9001", <<"4", "4">>, <<"7", "Z">>, <<"1">>, <<"2", ".", "5">>),
     RawPitStop("9001", <<"4", "4">>, <<"7", "Z">>, <<"1">>, <<"3">>),
     RawPitStop("9001", <<"4", "4">>, <<"8", "Z">>, <<"2">>, <<>>),
     RawPitStop("9001", <<"6", "3">>, <<"7", "Z">>, <<"1">>, <<"3">>),
     RawPitStop("9001", <<"4", "4">>, <<"7", "Z">>, <<"9">>, <<"3">>),
     RawPitStop("9001", <<"4", "4">>, <<"7">>, <<"1">>, <<"3">>),
     RawPitStop("9001", <<"4", "4">>, <<"7", "Z">>, <<>>, <<"3">>),
     RawPitStop("9003", <<"4", "4">>, <<"7", "Z">>, <<"1">>, <<"3">>)}

InitPitStops ==
    /\ CrIdle
    /\ drivers = {DrvMaxV}
    /\ driver_alias = {}
    /\ driver_id_by_session =
          {[openf1_session_key |-> key, driver_number |-> 44, driver_id |-> DrvMaxV] :
              key \in {"9001", "9003"}}
    /\ driver_numbers_by_season = LapDriverNumbers
    /\ results = {}
    /\ laps = {NewLap(i, "false") : i \in 1..2}
    /\ pit_stops = {}
    /\ race_control = {}
    /\ sessions = LapSessions
    /\ points_system = {}
    /\ laps_raw = {}
    /\ next_lap_id = 3
    /\ ExIdle
    /\ last_run = NoRun

\* Pit stops arrive in bronze.pit_stops_raw
IngestPitStopsRun ==
    /\ \E fetched \in SUBSET (RawPitStops \ pit_stops_raw) :
          /\ fetched # {}
          /\ Cardinality(pit_stops_raw \cup fetched) <= MaxRaw
          /\ pit_stops_raw' = pit_stops_raw \cup fetched
    /\ last_run' = [script |-> "ingest_pit_stops"]
    /\ UNCHANGED <<crVars, dbVars, car_telemetry_raw, car_telemetry, telemetry_unique, laps_runs,
                   pipeline>>

\* main of upsert_pit_stops.py. last_run keeps the rows bronze held, the
\* table the run found and the counters of the run.
UpsertPitStopsFromBronzeRun ==
    \E lap_id_map \in get_lap_id_map(laps) :
        \E records \in get_pit_stops_from_bronze(PitStopsFromBronze(pit_stops_raw)) :
            \E existing_records \in ExistingPitStops(pit_stops) :
                \E run \in {upsert_pit_stops(pit_stops, records, lap_id_map,
                                             existing_records)} :
                    /\ pit_stops' = run.table
                    /\ last_run' = [script |-> "upsert_pit_stops",
                                    raw |-> pit_stops_raw,
                                    before |-> pit_stops,
                                    lap_id_map |-> lap_id_map,
                                    records |-> Len(records),
                                    inserted |-> run.inserted_count,
                                    updated |-> run.updated_count,
                                    skipped |-> run.skipped_count]
                    /\ UNCHANGED <<crVars, drivers, driver_alias, driver_id_by_session,
                                   driver_numbers_by_season, results, laps,
                                   race_control, sessions, points_system, laps_raw,
                                   next_lap_id, exVars>>

NextPitStops == IngestPitStopsRun \/ UpsertPitStopsFromBronzeRun

SpecPitStops == InitPitStops /\ [][NextPitStops]_vars

\* The raw records the run read: the rows of bronze.pit_stops_raw that have
\* a session key, a driver number, a date and a lap number
RawRecordsRead(raw) ==
    {r \in raw : /\ r.openf1_session_key # NULL
                 /\ r.driver_number # NoStr
                 /\ r.date # NoStr
                 /\ r.lap_number # NoStr}

\* A raw record read whose session, driver or lap is not found
ReferenceUnresolved(r, lap_id_map) ==
    \/ SessionIdMapGet(r.openf1_session_key) = ""
    \/ PitStopDriverId(r) = NoStr
    \/ <<SessionIdMapGet(r.openf1_session_key), PitStopDriverId(r),
         parse_int_pit_stops(r.lap_number)>> \notin DOMAIN lap_id_map

\* C19: after a run of the pit-stop upsert, no row of silver.pit_stops
\* stands for a raw record whose session, driver or lap was not resolved
\* (every row has a session of silver.sessions, a driver of the driver map
\* and a lap of silver.laps), every such raw record is part of the skipped
\* count, and the raw records read are inserted + updated + skipped.
C19_UnresolvedSkippedAndCounted ==
    last_run.script = "upsert_pit_stops" =>
        /\ \A row \in pit_stops :
              /\ \E q \in sessions : q.session_id = row.session_id
              /\ \E d \in driver_id_by_session : d.driver_id = row.driver_id
              /\ \E l \in laps : l.lap_id = row.lap_id
        /\ last_run.skipped >=
              Cardinality({r \in RawRecordsRead(last_run.raw) :
                              ReferenceUnresolved(r, last_run.lap_id_map)})
        /\ Cardinality(RawRecordsRead(last_run.raw))
              = last_run.inserted + last_run.updated + last_run.skipped

(***************************************************************************)
(* The pipeline: update_database.py                                        *)
(***************************************************************************)

\* SILVER_SCRIPTS, in the order of the list
SILVER_SCRIPTS ==
    <<"upsert_circuits", "upsert_meetings", "upsert_sessions",
      "upsert_drivers", "upsert_driver_numbers_by_season",
      "upsert_driver_teams_by_session", "upsert_team_branding",
      "upsert_laps", "upsert_results", "upsert_race_control",
      "upsert_stints", "upsert_pit_stops",
      "upsert_weather", "upsert_overtakes", "upsert_intervals", "upsert_position",
      "upsert_points_awarding",
      "backfill_lap_validity">>

\* run_silver_upserts: pipeline is the list of the scripts of the current
\* run that have ended; the loop runs the script after them
SilverRunning == Len(pipeline) < Len(SILVER_SCRIPTS)
NextScript == SILVER_SCRIPTS[Len(pipeline) + 1]
ScriptEnded(script) == \E i \in DOMAIN pipeline : pipeline[i] = script

\* The scripts of the list whose tables are not part of this model
OtherScripts ==
    Range(SILVER_SCRIPTS) \ {"upsert_laps", "upsert_race_control", "upsert_pit_stops",
                             "upsert_points_awarding", "backfill_lap_validity"}

(***************************************************************************)
(* SpecPipeline: run_full_pipeline, again and again. A race of 50 laps has *)
(* its result; laps, pit stops and messages arrive in bronze.              *)
(***************************************************************************)

\* What the feed can return for the race: laps 1 to 3 of car 44, lap 2
\* with two start times and the third a pit-out lap; two stops on lap 2; a
\* message that deletes lap 2 and a green flag
PipelineRawLaps ==
    {RawLap("9001", <<"4", "4">>, <<"1">>, <<"7", "Z">>, <<"9", "1">>),
     RawLap("9001", <<"4", "4">>, <<"2">>, <<"8", "Z">>, <<"9", "1">>),
     RawLap("9001", <<"4", "4">>, <<"2">>, <<"6", "Z">>, <<"9", "1">>),
     [RawLap("9001", <<"4", "4">>, <<"3">>, <<"9", "Z">>, <<"9", "1">>)
          EXCEPT !.is_pit_out_lap = <<"t", "r", "u", "e">>]}
PipelineRawPitStops ==
    {RawPitStop("9001", <<"4", "4">>, <<"8", "Z">>, <<"2">>, d) :
        d \in {<<"2", ".", "5">>, <<>>}}
PipelineMessages ==
    {Message(<<"D", "e", "l", "e", "t", "e", "d">>, 2),
     FlagMessage("Flag", "GREEN", "Track", <<"T", "R", "A", "C", "K", " ", "C", "L", "E", "A", "R">>)}

InitPipeline ==
    /\ CrIdle
    /\ drivers = {DrvMaxV}
    /\ driver_alias = {}
    /\ driver_id_by_session =
          {[openf1_session_key |-> "9001", driver_number |-> 44, driver_id |-> DrvMaxV]}
    /\ driver_numbers_by_season = LapDriverNumbers
    /\ \E completed \in {NullInt, 40} :
          results = {ResultOf("ses:1", DrvMaxV, 1, completed, "finished", FALSE)}
    /\ laps = {}
    /\ pit_stops = {}
    /\ race_control = {}
    /\ sessions = PointSessions
    /\ points_system = BaseRules
    /\ laps_raw = {}
    /\ next_lap_id = 1
    /\ ExIdle
    /\ last_run = NoRun

\* run_bronze_ingestion, before the silver scripts of a run: laps are
\* fetched for a session without a row in bronze.laps_raw, pit stops that
\* bronze does not hold are added
RunBronzeIngestion ==
    /\ pipeline = <<>> \/ ~SilverRunning
    /\ \E fetched \in SUBSET PipelineRawLaps :
          /\ fetched # {} => laps_raw = {}
          /\ laps_raw' = laps_raw \cup fetched
    /\ \E fetched \in SUBSET (PipelineRawPitStops \ pit_stops_raw) :
          pit_stops_raw' = pit_stops_raw \cup fetched
    /\ pipeline' = <<>>
    /\ last_run' = [script |-> "run_bronze_ingestion"]
    /\ UNCHANGED <<crVars, drivers, driver_alias, driver_id_by_session,
                   driver_numbers_by_season, results, laps, pit_stops,
                   race_control, sessions, points_system, next_lap_id,
                   car_telemetry_raw, car_telemetry, telemetry_unique, laps_runs>>

\* run_script of a script whose tables are not part of this model
\* (upsert_results finds the result it wrote before and keeps its points)
RunOtherScript ==
    /\ SilverRunning
    /\ NextScript \in OtherScripts
    /\ pipeline' = Append(pipeline, NextScript)
    /\ last_run' = [script |-> NextScript]
    /\ UNCHANGED <<crVars, dbVars, pit_stops_raw, car_telemetry_raw, car_telemetry,
                   telemetry_unique, laps_runs>>

\* run_script of upsert_laps.py
RunUpsertLaps ==
    /\ SilverRunning
    /\ NextScript = "upsert_laps"
    /\ \E laps_list \in DateStartOrdered(LapsFromBronze) :
          \E upsert_records \in {UpsertRecordsLaps(laps_list)} :
              \E existing_laps \in ExistingLaps(laps, upsert_records) :
                  /\ laps' = upsert_laps(laps, upsert_records, existing_laps,
                                         next_lap_id)
                  /\ next_lap_id' = next_lap_id
                         + Cardinality({i \in DOMAIN upsert_records :
                              LapKey(upsert_records[i]) \notin DOMAIN existing_laps})
    /\ pipeline' = Append(pipeline, NextScript)
    /\ last_run' = [script |-> NextScript]
    /\ UNCHANGED <<crVars, drivers, driver_alias, driver_id_by_session,
                   driver_numbers_by_season, results, pit_stops, race_control,
                   sessions, points_system, laps_raw, pit_stops_raw,
                   car_telemetry_raw, car_telemetry, telemetry_unique, laps_runs>>

\* run_script of upsert_race_control.py: the messages that arrived are
\* inserted
RunUpsertRaceControl ==
    /\ SilverRunning
    /\ NextScript = "upsert_race_control"
    /\ \E rows \in SUBSET (PipelineMessages \ race_control) :
          race_control' = race_control \cup rows
    /\ pipeline' = Append(pipeline, NextScript)
    /\ last_run' = [script |-> NextScript]
    /\ UNCHANGED <<crVars, drivers, driver_alias, driver_id_by_session,
                   driver_numbers_by_season, results, laps, pit_stops,
                   sessions, points_system, laps_raw, next_lap_id, pit_stops_raw,
                   car_telemetry_raw, car_telemetry, telemetry_unique, laps_runs>>

\* run_script of upsert_pit_stops.py
RunUpsertPitStops ==
    /\ SilverRunning
    /\ NextScript = "upsert_pit_stops"
    /\ \E lap_id_map \in get_lap_id_map(laps) :
          \E records \in get_pit_stops_from_bronze(PitStopsFromBronze(pit_stops_raw)) :
              \E existing_records \in ExistingPitStops(pit_stops) :
                  pit_stops' = upsert_pit_stops(pit_stops, records, lap_id_map,
                                                existing_records).table
    /\ pipeline' = Append(pipeline, NextScript)
    /\ last_run' = [script |-> NextScript]
    /\ UNCHANGED <<crVars, drivers, driver_alias, driver_id_by_session,
                   driver_numbers_by_season, results, laps, race_control,
                   sessions, points_system, laps_raw, next_lap_id, pit_stops_raw,
                   car_telemetry_raw, car_telemetry, telemetry_unique, laps_runs>>

\* run_script of upsert_points_awarding.py
RunUpsertPointsAwarding ==
    /\ SilverRunning
    /\ NextScript = "upsert_points_awarding"
    /\ \E lookup_ok \in BOOLEAN :
          results' = ScoreSessions(results, {r.session_id : r \in results},
                                   points_system, lookup_ok)
    /\ pipeline' = Append(pipeline, NextScript)
    /\ last_run' = [script |-> NextScript]
    /\ UNCHANGED <<crVars, drivers, driver_alias, driver_id_by_session,
                   driver_numbers_by_season, laps, pit_stops, race_control,
                   sessions, points_system, laps_raw, next_lap_id, pit_stops_raw,
                   car_telemetry_raw, car_telemetry, telemetry_unique, laps_runs>>

\* run_script of backfill_lap_validity.py; last_run keeps the laps the run
\* found
RunBackfillLapValidity ==
    /\ SilverRunning
    /\ NextScript = "backfill_lap_validity"
    /\ laps' = update_lap_validity(laps, pit_stops, get_deleted_lap_ids(race_control))
    /\ pipeline' = Append(pipeline, NextScript)
    /\ last_run' = [script |-> NextScript, before |-> laps]
    /\ UNCHANGED <<crVars, drivers, driver_alias, driver_id_by_session,
                   driver_numbers_by_season, results, pit_stops, race_control,
                   sessions, points_system, laps_raw, next_lap_id, pit_stops_raw,
                   car_telemetry_raw, car_telemetry, telemetry_unique, laps_runs>>

NextPipeline ==
    \/ RunBronzeIngestion
    \/ RunOtherScript
    \/ RunUpsertLaps
    \/ RunUpsertRaceControl
    \/ RunUpsertPitStops
    \/ RunUpsertPointsAwarding
    \/ RunBackfillLapValidity

SpecPipeline == InitPipeline /\ [][NextPipeline]_vars

\* The points of silver.results are the points the engine computes from
\* the lap flags as they stand
PointsAgreeWithFlags ==
    \E lookup_ok \in BOOLEAN :
        results = ScoreSessions(results, {r.session_id : r \in results},
                                points_system, lookup_ok)

\* C20: in a pipeline run the points engine has run only if the lap
\* validity deriver has run before it in the same run, and when the run
\* has ended the points are those computed from the flags the run derived.
C20_ValidityBeforePoints ==
    /\ ScriptEnded("upsert_points_awarding") => ScriptEnded("backfill_lap_validity")
    /\ (~SilverRunning) => PointsAgreeWithFlags

(***************************************************************************)
(* upsert_drivers and the synthesized id                                   *)
(***************************************************************************)

\* C21: after a run of upsert_drivers, every raw driver without an alias
\* hit whose synthesized id is not empty has a row of silver.drivers with
\* that id, whether or not the id was in the table before the run.
C21_SynthesizedIdAccepted ==
    last_run.script = "upsert_drivers" =>
        \A i \in DOMAIN last_run.records :
            (/\ resolve_driver_id_from_alias(last_run.records[i].first_name,
                                             last_run.records[i].last_name,
                                             driver_alias) = NoStr
             /\ last_run.resolved[i] # NoStr)
                => last_run.resolved[i] \in drivers

(***************************************************************************)
(* The minimum-race-laps gate                                              *)
(***************************************************************************)

\* C22: in a points run, the gate of a scored session is true for 3 or
\* more completed laps, false for fewer than 2, and for exactly 2 it is
\* true exactly when the session has a track green flag message other than
\* the pit exit opening, or a DRS enabled message.
C22_GateByLapsAndMessages ==
    \A s \in sessions :
        JustScored(s.session_id) =>
            (has_minimum_race_laps(race_control, s.session_id,
                                   CompletedLaps(s.session_id), last_run.lookup_ok)
                <=> \/ CompletedLaps(s.session_id) >= 3
                    \/ /\ CompletedLaps(s.session_id) = 2
                       /\ GreenFlagOrDrsMessage(s.session_id))

(***************************************************************************)
(* is_pit_in_lap is rewritten in full                                      *)
(***************************************************************************)

\* C23: after a run of the lap validity deriver, a lap has is_pit_in_lap
\* exactly when a row of silver.pit_stops refers to it.
C23_PitInIffReferenced ==
    last_run.script = "backfill_lap_validity" =>
        \A l \in laps :
            l.is_pit_in_lap <=> \E ps \in pit_stops : ps.lap_id = l.lap_id

\* A run found a lap flagged pit-in by an earlier run while the pit stop
\* refers to another lap by now: the flag of the first is FALSE and the
\* flag of the other is TRUE.
C23_Witness ==
    /\ last_run.script = "backfill_lap_validity"
    /\ \E b \in last_run.before : \E l \in laps :
          /\ b.lap_id = l.lap_id
          /\ b.is_pit_in_lap
          /\ ~l.is_pit_in_lap
          /\ ~\E ps \in pit_stops : ps.lap_id = l.lap_id
    /\ \E l \in laps : l.is_pit_in_lap

(***************************************************************************)
(* The completed lap count of a session                                    *)
(***************************************************************************)

\* The greatest laps_completed of the finished results of a session, else
\* the greatest lap number of its valid laps, else 0
FinisherLapCount(session_id) ==
    LET completed == {r.laps_completed :
                         r \in {q \in results : /\ q.session_id = session_id
                                                /\ q.status = "finished"
                                                /\ q.laps_completed # NullInt}}
        valid == {l.lap_number :
                     l \in {q \in laps : q.session_id = session_id /\ q.is_valid}}
    IN  IF completed # {} THEN MaxOf(completed)
        ELSE IF valid # {} THEN MaxOf(valid)
        ELSE 0

\* C24: the completed lap count a points run uses for a session is the
\* greatest laps_completed of its finishers, else the greatest valid lap
\* number, else 0; the laps_completed of a result that is not finished
\* does not count.
C24_CountOfFinishers ==
    \A s \in sessions :
        JustScored(s.session_id) =>
            get_session_context(s.session_id, last_run.lookup_ok).completed_laps
                = FinisherLapCount(s.session_id)

(***************************************************************************)
(* SpecLapRuns: two upsert_laps processes on one store                     *)
(***************************************************************************)
LapProcs == {1, 2}

IdleLapRun == [pc |-> "idle", upsert_records |-> <<>>, existing_laps |-> <<>>]

\* Rows bronze.laps_raw can hold: lap 1 of car 44 timed twice, and lap 2
RunRawLaps ==
    {RawLap("9001", <<"4", "4">>, <<"1">>, <<"7", "Z">>, <<"9", "0", ".", "5">>),
     RawLap("9001", <<"4", "4">>, <<"1">>, <<"7", "Z">>, <<"9", "1">>),
     RawLap("9001", <<"4", "4">>, <<"2">>, <<"8", "Z">>, <<"9", "1">>)}

InitLapRuns ==
    /\ CrIdle
    /\ drivers = {DrvMaxV, DrvLiNo}
    /\ driver_alias = {}
    /\ driver_id_by_session = {}
    /\ driver_numbers_by_season \in {LapDriverNumbers, SharedCarNumber}
    /\ results = {}
    /\ laps = {}
    /\ pit_stops = {}
    /\ race_control = {}
    /\ sessions = LapSessions
    /\ points_system = {}
    /\ laps_raw \in SUBSET RunRawLaps \ {{}}
    /\ driver_numbers_by_season = SharedCarNumber => Cardinality(laps_raw) = 1
    /\ next_lap_id = 1
    /\ pit_stops_raw = {}
    /\ car_telemetry_raw = {}
    /\ car_telemetry = <<>>
    /\ telemetry_unique = FALSE
    /\ laps_runs = [run |-> [p \in LapProcs |-> IdleLapRun], overlapped |-> FALSE]
    /\ pipeline = <<>>
    /\ last_run = NoRun

\* Lines 353-452 of upsert_laps in process p: the records are read and
\* validated, and existing_laps is filled by the batch check. overlapped
\* turns TRUE when the other process is between its check and its last
\* write.
LapsCheck ==
  \E p \in LapProcs :
    /\ laps_runs.run[p].pc = "idle"
    /\ \E laps_list \in DateStartOrdered(LapsFromBronze) :
          \E upsert_records \in {UpsertRecordsLaps(laps_list)} :
              \E existing_laps \in ExistingLaps(laps, upsert_records) :
                  laps_runs' =
                      [run |-> [laps_runs.run EXCEPT
                                   ![p] = [pc |-> "checked",
                                           upsert_records |-> upsert_records,
                                           existing_laps |-> existing_laps]],
                       overlapped |-> \/ laps_runs.overlapped
                                      \/ \E q \in LapProcs \ {p} :
                                            laps_runs.run[q].pc # "idle"]
    /\ UNCHANGED <<crVars, dbVars, pit_stops_raw, car_telemetry_raw, car_telemetry,
                   telemetry_unique, pipeline, last_run>>

\* Lines 456-504 in process p: the records whose key the check did not
\* find are inserted and committed
LapsInsert ==
  \E p \in LapProcs :
    /\ laps_runs.run[p].pc = "checked"
    /\ \E records_to_insert \in
             {SelectSeq(laps_runs.run[p].upsert_records,
                        LAMBDA r : LapKey(r) \notin DOMAIN laps_runs.run[p].existing_laps)} :
          /\ laps' = InsertLaps(laps, records_to_insert, next_lap_id)
          /\ next_lap_id' = next_lap_id + Len(records_to_insert)
    /\ laps_runs' = [laps_runs EXCEPT !.run[p].pc = "inserted"]
    /\ UNCHANGED <<crVars, drivers, driver_alias, driver_id_by_session,
                   driver_numbers_by_season, results, pit_stops, race_control,
                   sessions, points_system, laps_raw, pit_stops_raw,
                   car_telemetry_raw, car_telemetry, telemetry_unique, pipeline,
                   last_run>>

\* Lines 506-541 in process p: the records whose key the check found are
\* updated and committed, and the run ends
LapsUpdate ==
  \E p \in LapProcs :
    /\ laps_runs.run[p].pc = "inserted"
    /\ \E found \in
             {SelectSeq(laps_runs.run[p].upsert_records,
                        LAMBDA r : LapKey(r) \in DOMAIN laps_runs.run[p].existing_laps)} :
          laps' = ExecuteMany(UpdateLap, laps,
                      [i \in DOMAIN found |->
                          [lap_id |-> laps_runs.run[p].existing_laps[LapKey(found[i])],
                           lap_duration_ms |-> found[i].lap_duration_ms,
                           is_pit_out_lap |-> found[i].is_pit_out_lap]])
    /\ laps_runs' = [laps_runs EXCEPT !.run[p] = IdleLapRun]
    /\ last_run' = [script |-> "upsert_laps", repeat |-> FALSE, before |-> {}]
    /\ UNCHANGED <<crVars, drivers, driver_alias, driver_id_by_session,
                   driver_numbers_by_season, results, pit_stops, race_control,
                   sessions, points_system, laps_raw, next_lap_id, pit_stops_raw,
                   car_telemetry_raw, car_telemetry, telemetry_unique, pipeline>>

NextLapRuns == LapsCheck \/ LapsInsert \/ LapsUpdate

SpecLapRuns == InitLapRuns /\ [][NextLapRuns]_vars

\* C25: as long as no upsert_laps run has started while another was
\* between its check and its last write, silver.laps holds no two rows
\* with one (session_id, driver_id, lap_number, date_start).
C25_SerializedRunsKeepKeyUnique ==
    ~laps_runs.overlapped =>
        \A l1, l2 \in laps : LapKey(l1) = LapKey(l2) => l1.lap_id = l2.lap_id

\* C26: a run of backfill_lap_validity that fails or is interrupted before
\* its commit leaves is_pit_in_lap and is_valid of every lap as they were
\* before the run; the state in which every lap is valid, which the
\* transaction passes through, is never the committed one
C26_FailedRunLeavesFlags ==
    last_run.script = "update_lap_validity_failed" =>
        /\ laps = last_run.before
        /\ \A l \in laps : \E b \in last_run.before :
              /\ b.lap_id = l.lap_id
              /\ b.is_pit_in_lap = l.is_pit_in_lap
              /\ b.is_valid = l.is_valid

\* A failed run whose transaction had made every lap valid while a lap
\* was, and still is, invalid in the table
C26_Witness ==
    /\ last_run.script = "update_lap_validity_failed"
    /\ \A l \in last_run.uncommitted : l.is_valid
    /\ \E l \in laps : ~l.is_valid
    /\ \E l \in laps : l.is_pit_in_lap

(***************************************************************************)
(* Two raw drivers with one generated id                                   *)
(***************************************************************************)

\* C27: when two raw drivers of a run of upsert_drivers have different
\* names, no alias entry, and the same generated driver_id, the run logs a
\* warning of the kind ambiguous identity.
C27_CollisionIsWarned ==
    last_run.script = "upsert_drivers" =>
        \A i, j \in DOMAIN last_run.records :
            (/\ <<last_run.records[i].first_name, last_run.records[i].last_name>> #
                   <<last_run.records[j].first_name, last_run.records[j].last_name>>
             /\ resolve_driver_id_from_alias(last_run.records[i].first_name,
                                             last_run.records[i].last_name,
                                             driver_alias) = NoStr
             /\ resolve_driver_id_from_alias(last_run.records[j].first_name,
                                             last_run.records[j].last_name,
                                             driver_alias) = NoStr
             /\ last_run.resolved[i] # NoStr
             /\ last_run.resolved[i] = last_run.resolved[j])
                => "ambiguous_identity" \in last_run.warnings

(***************************************************************************)
(* SpecPointFaults: runs of upsert_points_awarding in which a statement    *)
(* raises psycopg.Error                                                    *)
(***************************************************************************)

\* get_all_sessions_with_results: ORDER BY session_id
SessionOrder == <<"ses:1", "ses:2", "ses:3">>

\* The statement of a run that raises psycopg.Error: the context query of
\* a session (line 130), the race_control queries of its gate (88-107) or
\* its at-th UPDATE (258, 274, 311, 340). A server error leaves the
\* transaction of the connection aborted, so that every later statement
\* raises until conn.rollback(); a client error (the driver rejects the
\* query text before it sends it) leaves the transaction usable.
Faults ==
    {[session_id |-> s, point |-> "context", kind |-> "server", at |-> 1] :
        s \in Range(SessionOrder)}
    \cup {[session_id |-> s, point |-> "gate", kind |-> k, at |-> 1] :
             s \in Range(SessionOrder), k \in {"client", "server"}}
    \cup {[session_id |-> s, point |-> "update", kind |-> "server", at |-> n] :
             s \in Range(SessionOrder), n \in 1..2}

\* ORDER BY finish_position NULLS LAST
PositionKey(r) == IF r.finish_position = NullInt THEN 1000 ELSE r.finish_position

\* The sets of n rows the loop of lines 307-352 can have updated before
\* its next UPDATE (rows of equal position come in any order)
FirstResults(rows, n) ==
    {S \in SUBSET rows :
        /\ Cardinality(S) = n
        /\ \A r \in S : \A q \in rows \ S : PositionKey(r) <= PositionKey(q)}

\* The run before its first session: the committed table, whether the
\* transaction is aborted, whether an exception has left main, the first
\* statement that failed, the sessions written after it, the sessions whose
\* gate the except branch of has_minimum_race_laps opened, and the table
\* of the transaction that was rolled back
StartOfRun(table) ==
    [table |-> table, aborted |-> FALSE, raised |-> FALSE, failed_point |-> "none",
     written_after |-> {}, assumed_open |-> {}, partial |-> {}]

\* One pass of the loop of main (lines 409-427) over session_id
ScoreSessionWithFault(st, session_id, fault, done, points_map) ==
    IF st.raised THEN st
    ELSE IF st.aborted \/ (fault.session_id = session_id /\ fault.point = "context")
    THEN \* get_session_context returns None (171-173) and main continues
         \* with the next session (411-414)
         [st EXCEPT !.aborted = TRUE,
                    !.failed_point = IF @ = "none" THEN "context" ELSE @]
    ELSE
      LET gate_fails ==
              /\ fault.session_id = session_id
              /\ fault.point = "gate"
              /\ CompletedLaps(session_id) = 2
          context == get_session_context(session_id, ~gate_fails)
          \* has_minimum_race_laps returns True from its except branch
          st1 == IF gate_fails
                 THEN [st EXCEPT !.aborted = (fault.kind = "server"),
                                 !.failed_point = IF @ = "none" THEN "gate" ELSE @,
                                 !.assumed_open = @ \cup {session_id}]
                 ELSE st
          rows == {r \in st.table : r.session_id = session_id}
          update_fault == fault.session_id = session_id /\ fault.point = "update"
          written(table) ==
              [st1 EXCEPT !.table = table,
                          !.written_after = IF st1.failed_point # "none"
                                            THEN @ \cup {session_id} ELSE @]
          partial == {IF r \in done
                      THEN [r EXCEPT !.points = TotalPoints(r, context, points_map)]
                      ELSE r : r \in st.table}
      IN  IF ~context.found THEN st
          ELSE IF ZeroesSession(context)
          THEN IF st1.aborted \/ (update_fault /\ fault.at = 1)
               THEN \* lines 264-267, 280-283: rollback, return (0, 0)
                    [st1 EXCEPT !.aborted = FALSE,
                                !.failed_point = IF @ = "none" THEN "update" ELSE @]
               ELSE written(calculate_points_for_session(st.table, session_id,
                                                         context, points_map))
          ELSE IF st1.aborted
          THEN \* get_session_results returns [] (239-241), the call returns
               \* (0, 0) and the COUNT query of main raises (422-427)
               [st1 EXCEPT !.raised = TRUE]
          ELSE IF update_fault /\ fault.at <= Cardinality(rows)
          THEN \* lines 356-359: rollback, raise
               [st1 EXCEPT !.table = Rollback(st.table, partial),
                           !.raised = TRUE,
                           !.failed_point = IF @ = "none" THEN "update" ELSE @,
                           !.partial = partial]
          ELSE written(calculate_points_for_session(st.table, session_id,
                                                    context, points_map))

\* The loop of main over the sessions in order
RECURSIVE ScoreSessionsWithFault(_, _, _, _, _)
ScoreSessionsWithFault(st, session_ids, fault, done, points_map) ==
    IF session_ids = <<>> THEN st
    ELSE ScoreSessionsWithFault(
             ScoreSessionWithFault(st, Head(session_ids), fault, done, points_map),
             Tail(session_ids), fault, done, points_map)

\* The race of SpecPoints, a session without points and a second race
FaultSessions ==
    PointSessions
    \cup {[session_id |-> "ses:3", openf1_session_key |-> "9003", season |-> 2024,
           points_awarding |-> "race", scheduled_laps |-> 50]}

InitPointFaults ==
    /\ CrIdle
    /\ drivers = {DrvA, DrvB}
    /\ driver_alias = {}
    /\ driver_id_by_session = {}
    /\ driver_numbers_by_season = {}
    /\ \E completed \in {NullInt, 40} : \E fastest \in BOOLEAN :
          results = {ResultOf("ses:1", DrvA, 1, completed, "finished", fastest),
                     ResultOf("ses:1", DrvB, 10, NullInt, "finished", TRUE),
                     ResultOf("ses:2", DrvA, 1, 40, "finished", TRUE),
                     ResultOf("ses:3", DrvA, 1, 40, "finished", TRUE),
                     ResultOf("ses:3", DrvB, 10, 40, "finished", FALSE)}
    /\ laps \in {{}, RaceLaps}
    /\ pit_stops = {}
    /\ race_control = {}
    /\ sessions = FaultSessions
    /\ points_system = BaseRules \cup BonusRules
    /\ laps_raw = {}
    /\ next_lap_id = 4
    /\ ExIdle
    /\ last_run = NoRun

\* main of upsert_points_awarding.py when one statement raises. last_run
\* keeps the fault, silver.results before the run and the course of the
\* run.
AwardPointsFaultRun ==
    /\ points_system # {}
    /\ \E fault \in Faults :
          \E done \in FirstResults({r \in results : r.session_id = fault.session_id},
                                   fault.at - 1) :
              \E st \in {ScoreSessionsWithFault(
                             StartOfRun(results),
                             SelectSeq(SessionOrder,
                                       LAMBDA s : \E r \in results : r.session_id = s),
                             fault, done, points_system)} :
                  /\ results' = st.table
                  /\ last_run' = [script |-> "upsert_points_awarding_fault",
                                  fault |-> fault,
                                  before |-> results,
                                  failed_point |-> st.failed_point,
                                  raised |-> st.raised \/ st.aborted,
                                  written_after |-> st.written_after,
                                  assumed_open |-> st.assumed_open,
                                  partial |-> st.partial]
    /\ UNCHANGED <<crVars, drivers, driver_alias, driver_id_by_session,
                   driver_numbers_by_season, laps, pit_stops, race_control,
                   sessions, points_system, laps_raw, next_lap_id, exVars>>

NextPointFaults == UpsertFlagMessagesRun \/ AwardPointsFaultRun

SpecPointFaults == InitPointFaults /\ [][NextPointFaults]_vars

\* C28: when the context query or the gate lookup of a points run fails,
\* the run writes no points after the failure and no session has its gate
\* assumed open.
C28_FailureAbortsRun ==
    (/\ last_run.script = "upsert_points_awarding_fault"
     /\ last_run.failed_point \in {"context", "gate"})
        => /\ last_run.written_after = {}
           /\ last_run.assumed_open = {}

\* The sessions that come before session_id in the loop of main
SessionsBefore(session_id) ==
    {SessionOrder[i] : i \in {j \in DOMAIN SessionOrder :
                                 \E k \in DOMAIN SessionOrder :
                                     j < k /\ SessionOrder[k] = session_id}}

\* C29: when an UPDATE of the loop over the results of a session fails,
\* no row of that session holds points of the run (every row is as it was
\* before the run, also the rows the loop had updated), the sessions
\* scored before it hold the points the run gave them, and the sessions
\* after it are untouched.
C29_SessionAllOrNothing ==
    (/\ last_run.script = "upsert_points_awarding_fault"
     /\ last_run.failed_point = "update"
     /\ last_run.raised)
        => /\ \A r \in results :
                 r.session_id \notin SessionsBefore(last_run.fault.session_id)
                     => r \in last_run.before
           /\ \A r \in results :
                 r.session_id \in SessionsBefore(last_run.fault.session_id)
                     => r \in ScoreSessions(last_run.before,
                                            SessionsBefore(last_run.fault.session_id),
                                            points_system, TRUE)

\* The second UPDATE of the third session failed after the first had
\* changed the points of a row, and the first session holds its points
C29_Witness ==
    /\ last_run.script = "upsert_points_awarding_fault"
    /\ last_run.failed_point = "update"
    /\ last_run.raised
    /\ last_run.fault.session_id = "ses:3"
    /\ \E r \in last_run.partial : r.session_id = "ses:3" /\ r \notin last_run.before
    /\ \E r \in results : r.session_id = "ses:1" /\ r.points > 0 /\ r \notin last_run.before

(***************************************************************************)
(* One raw lap, one canonical lap                                          *)
(***************************************************************************)

\* C30: a raw lap is persisted under at most one driver_id, also when two
\* drivers hold its car number in the season: no two rows of silver.laps
\* have the same session, lap number and start and different drivers (all
\* raw laps with a driver are laps of car 44).
C30_OneDriverPerRawLap ==
    \A l1, l2 \in laps :
        (/\ l1.session_id = l2.session_id
         /\ l1.lap_number = l2.lap_number
         /\ l1.date_start = l2.date_start)
            => l1.driver_id = l2.driver_id
====
